---- MODULE Spec2Model ----
(***************************************************************************)
(* Verification model of the command-output persistence and command        *)
(* orchestration core:                                                      *)
(*   - OutputInterceptor   (src/src/integrations/terminal/                  *)
(*                          OutputInterceptor.ts)                           *)
(*   - ReadCommandOutputTool (src/src/core/tools/ReadCommandOutputTool.ts)  *)
(*   - the tool orchestrator pseudo-code of                                 *)
(*     src/codex-extract-terminal-spawning-tool.md                          *)
(*                                                                         *)
(* Strings are modelled as sequences of UTF-16 code units, because the     *)
(* code mixes two measures of a string: String.prototype.slice counts code *)
(* units, Buffer.byteLength counts UTF-8 bytes.                            *)
(***************************************************************************)
EXTENDS Integers, Sequences, FiniteSets, TLC

VARIABLES
    oi,          \* OutputInterceptor instances: the private fields of each
    oiLog,       \* per instance: what it was asked to do and what it handed to fs
    files,       \* the storage directory: artifact path -> file
    dirExists,   \* whether the storage directory exists
    artifacts,   \* read side: artifact file name -> its bytes, or Missing
    task,        \* read side: the Task fields the tool updates
    call,        \* read side: the last execute() call, its fs accesses and results
    pc,          \* orchestrator: where the current tool call is suspended
    req,         \* orchestrator: the request and turn context of the current call
    appr,        \* orchestrator: approval requirement, decisions and prompts of the call
    cache,       \* orchestrator: approval keys approved for the session
    sandbox,     \* orchestrator: the sandbox type selected for the first attempt
    spawned,     \* orchestrator: the children spawned by the current call, in order
    outputs,     \* orchestrator: the ExecOutput of each finished attempt, in order
    result,      \* orchestrator: how the current call ended
    ncalls,      \* orchestrator: tool calls started in this session
    platform,    \* orchestrator: the platform sandbox of this host, or "None"
    answers,     \* orchestrator: the answers the human gave to approval prompts, in order
    host,        \* the operating system of this host and whether its sandbox is usable
    fn,          \* the last call of a pure helper: its name, arguments and result
    htb,         \* HeadTailBuffer: head chunks, tail chunks, total_bytes
    htbPushed,   \* HeadTailBuffer: every chunk pushed so far, in order
    store,       \* ProcessStore: the session entries, least recently used first
    storeNext,   \* ProcessStore: the id the next session gets
    storeUses,   \* ProcessStore: writes and polls so far
    storeLast,   \* ProcessStore: the last open: the store before it and what it did
    settings,    \* global state behind ContextProxy: key -> stored value
    migLog,      \* the calls of runSettingsMigrations: start state, updates, outcome
    tasks,       \* <base>/tasks: task id -> its directory, or Gone
    purge,       \* the call of purgeOldTasks: arguments, file system calls, result
    cmdDir,      \* a command-output directory: whether it exists and its entries
    cleaned,     \* the call of cleanup / cleanupByIds: arguments, unlinks, outcome
    foldFiles,   \* the files read in the conversation, with what tree-sitter gives
    folded,      \* the call of generateFoldedFileContext: its options and result
    effective    \* one setting read with its default before and after migration 1

oiVars == <<oi, oiLog, files, dirExists>>
readVars == <<artifacts, task, call>>
orchVars == <<pc, req, appr, cache, sandbox, spawned, outputs, result, ncalls, platform, answers>>
fnVars == <<host, fn>>
htbVars == <<htb, htbPushed>>
storeVars == <<store, storeNext, storeUses, storeLast>>
migVars == <<settings, migLog>>
purgeVars == <<tasks, purge>>
cleanVars == <<cmdDir, cleaned>>
foldVars == <<foldFiles, folded>>
defVars == <<effective>>
laterVars == <<cleanVars, foldVars, defVars>>
extVars == <<fnVars, htbVars, storeVars, migVars, purgeVars, laterVars>>
vars == <<oiVars, readVars, orchVars, extVars>>

----------------------------------------------------------------------------
(* Bounds of the model *)

\* Number of write()/finalize() calls made on one interceptor.
MaxOps == 4

\* Number of write()/finalize() calls made on each of two interleaved interceptors.
MaxSharedOps == 2

\* Number of read_command_output calls made in one turn.
MaxReads == 2

\* Number of tool calls the orchestrator runs in one session.
MaxCalls == 2

\* Size of one "KiB" of the preview thresholds, in bytes (1024 in the program).
KiB == 1

----------------------------------------------------------------------------
(* Strings *)

Min(a, b) == IF a <= b THEN a ELSE b

\* UTF-16 code units: two ASCII letters, a carriage return, a two-byte and a
\* three-byte BMP character, and the two halves of a surrogate pair (one
\* four-byte character).
Units == {"a", "b", "CR", "E2", "C3", "HS", "LS"}

UnitBytes(u) ==
    CASE u = "E2" -> 2
      [] u \in {"C3", "HS", "LS"} -> 3   \* a lone surrogate encodes as U+FFFD
      [] OTHER -> 1

\* Buffer.byteLength(s, "utf8")
RECURSIVE Utf8Len(_)
Utf8Len(s) ==
    IF s = <<>> THEN 0
    ELSE IF Len(s) >= 2 /\ s[1] = "HS" /\ s[2] = "LS"
         THEN 4 + Utf8Len(SubSeq(s, 3, Len(s)))
         ELSE UnitBytes(s[1]) + Utf8Len(Tail(s))

\* s.slice(0, n): the first n code units
Slice(s, n) == SubSeq(s, 1, Min(n, Len(s)))

\* The chunks a terminal stream delivers: well-formed strings (a decoder never
\* splits a surrogate pair across chunks).
Chunks ==
    { <<"a">>, <<"a", "b">>, <<"E2">>, <<"C3", "a">>, <<"HS", "LS">>, <<"a", "CR", "b">> }

----------------------------------------------------------------------------
(* Preview compression (src/integrations/misc/extract-text.ts is not part   *)
(* of the sources at hand; modelled as a terminal would render one line).   *)

\* One unit written at column col (0-based) of line: overwrite or append.
PutAt(line, col, u) ==
    IF col < Len(line)
    THEN [k \in 1..Len(line) |-> IF k = col + 1 THEN u ELSE line[k]]
    ELSE Append(line, u)

RECURSIVE RenderCR(_, _, _)
RenderCR(line, col, rest) ==
    IF rest = <<>> THEN line
    ELSE IF rest[1] = "CR" THEN RenderCR(line, 0, Tail(rest))
    ELSE RenderCR(PutAt(line, col, rest[1]), col + 1, Tail(rest))

\* processCarriageReturns(preview): text after a carriage return overwrites
\* the line from its start.
processCarriageReturns(s) == RenderCR(<<>>, 0, s)

RECURSIVE RenderBS(_, _)
RenderBS(line, rest) ==
    IF rest = <<>> THEN line
    ELSE IF rest[1] = "BS"
         THEN RenderBS(IF line = <<>> THEN line ELSE SubSeq(line, 1, Len(line) - 1), Tail(rest))
         ELSE RenderBS(Append(line, rest[1]), Tail(rest))

\* processBackspaces(preview): a backspace deletes the unit before it.
processBackspaces(s) == RenderBS(<<>>, s)

----------------------------------------------------------------------------
(* OutputInterceptor *)

Inst == {1, 2}

PreviewSizes == {"small", "medium", "large"}

\* TERMINAL_PREVIEW_BYTES[previewSize]: 2 KiB, 4 KiB, 8 KiB
TERMINAL_PREVIEW_BYTES(size) ==
    CASE size = "small" -> 2 * KiB
      [] size = "medium" -> 4 * KiB
      [] OTHER -> 8 * KiB

\* Execution ids: any string, "typically a timestamp" (a digit string such
\* as Date.now().toString()).
ExecutionIds == { <<"1">>, <<"2">>, <<"1", "2">>, <<"a">> }

\* A file name that does not depend on the execution.
ArtifactPath_Fixed(id) == <<"c", "m", "d", "-", "1", ".", "t", "x", "t">>

\* `cmd-${executionId}.txt` under the storage directory (one directory is
\* modelled, so a path is the file name).
ArtifactPath(id) == <<"c", "m", "d", "-">> \o id \o <<".", "t", "x", "t">>

Paths == { ArtifactPath(id) : id \in ExecutionIds }

NoFile == [exists |-> FALSE, data |-> <<>>, writers |-> {}]

NoResult == [set |-> FALSE]

Unconstructed ==
    [constructed |-> FALSE, executionId |-> <<>>, artifactPath |-> <<>>,
     previewBytes |-> 0, compressProgressBar |-> FALSE,
     buffer |-> <<>>, writeStream |-> "null", totalBytes |-> 0,
     spilledToDisk |-> FALSE]

EmptyLog ==
    [ops |-> 0, written |-> <<>>, streamWrites |-> <<>>, created |-> 0,
     ended |-> 0, afterEnd |-> 0, result |-> NoResult]

\* The ids already given to an execution.
UsedIds == { oi[i].executionId : i \in { j \in Inst : oi[j].constructed } }

\* The caller gives every execution an id of its own ("Unique identifier for
\* this command execution").
NewExecutionId(id) == id \notin UsedIds

\* new OutputInterceptor(options)
Construct(i, id, size, compress) ==
    /\ ~oi[i].constructed
    /\ NewExecutionId(id)
    /\ oi' = [oi EXCEPT ![i] =
                [constructed |-> TRUE, executionId |-> id,
                 artifactPath |-> ArtifactPath(id),
                 previewBytes |-> TERMINAL_PREVIEW_BYTES(size),
                 compressProgressBar |-> compress,
                 buffer |-> <<>>, writeStream |-> "null", totalBytes |-> 0,
                 spilledToDisk |-> FALSE]]
    /\ UNCHANGED <<oiLog, files, dirExists>>
    /\ UNCHANGED <<readVars, orchVars, extVars>>

\* A threshold test that spills at the threshold already.
ExceedsPreview_AtThreshold(buffer, previewBytes) == Utf8Len(buffer) >= previewBytes

\* Buffer.byteLength(this.buffer, "utf8") > this.previewBytes
ExceedsPreview(buffer, previewBytes) == Utf8Len(buffer) > previewBytes

\* A spill that writes the buffer after cutting it to the preview.
SpillData_AfterCut(buffer, previewBytes) == Slice(buffer, previewBytes)

\* this.writeStream.write(this.buffer): the whole buffer, before it is cut
SpillData(buffer, previewBytes) == buffer

\* this.buffer.slice(0, this.previewBytes)
PreviewPortion(buffer, previewBytes) == Slice(buffer, previewBytes)

\* fs.createWriteStream(path): flags "w" create the file or truncate it.
CreateWriteStream(f, i) == [exists |-> TRUE, data |-> <<>>, writers |-> f.writers \cup {i}]

\* stream.write(data) on an open stream appends to the file.
StreamWrite(f, data) == [f EXCEPT !.data = @ \o data]

\* write(chunk) while buffering, the spill included.
WriteBuffering(i, chunk) ==
    LET o == oi[i]
        grown == o.buffer \o chunk
    IN  IF ExceedsPreview(grown, o.previewBytes)
        THEN \* spillToDisk()
             /\ oi' = [oi EXCEPT ![i].totalBytes = @ + Utf8Len(chunk),
                                 ![i].writeStream = "open",
                                 ![i].spilledToDisk = TRUE,
                                 ![i].buffer = PreviewPortion(grown, o.previewBytes)]
             /\ files' = [files EXCEPT ![o.artifactPath] =
                             StreamWrite(CreateWriteStream(@, i), SpillData(grown, o.previewBytes))]
             /\ dirExists' = TRUE
             /\ oiLog' = [oiLog EXCEPT ![i].ops = @ + 1,
                                       ![i].written = @ \o chunk,
                                       ![i].created = @ + 1,
                                       ![i].streamWrites = Append(@, SpillData(grown, o.previewBytes))]
        ELSE /\ oi' = [oi EXCEPT ![i].totalBytes = @ + Utf8Len(chunk),
                                 ![i].buffer = grown]
             /\ oiLog' = [oiLog EXCEPT ![i].ops = @ + 1,
                                       ![i].written = @ \o chunk]
             /\ UNCHANGED <<files, dirExists>>

\* A write after the spill that keeps growing the buffer.
WriteSpilled_Buffers(i, chunk) ==
    /\ oi' = [oi EXCEPT ![i].totalBytes = @ + Utf8Len(chunk),
                        ![i].buffer = @ \o chunk]
    /\ oiLog' = [oiLog EXCEPT ![i].ops = @ + 1,
                              ![i].written = @ \o chunk]
    /\ UNCHANGED <<files, dirExists>>

\* write(chunk) after the spill: this.writeStream?.write(chunk)
WriteSpilled(i, chunk) ==
    LET o == oi[i]
    IN  /\ oi' = [oi EXCEPT ![i].totalBytes = @ + Utf8Len(chunk)]
        /\ files' = IF o.writeStream = "open"
                    THEN [files EXCEPT ![o.artifactPath] = StreamWrite(@, chunk)]
                    ELSE files
        /\ oiLog' = [oiLog EXCEPT ![i].ops = @ + 1,
                                  ![i].written = @ \o chunk,
                                  ![i].streamWrites = Append(@, chunk),
                                  ![i].afterEnd = IF o.writeStream = "ended" THEN @ + 1 ELSE @]
        /\ UNCHANGED dirExists

\* write(chunk)
Write(i, chunk) ==
    /\ oi[i].constructed
    /\ oiLog[i].ops < MaxOps
    /\ IF oi[i].spilledToDisk THEN WriteSpilled(i, chunk) ELSE WriteBuffering(i, chunk)
    /\ UNCHANGED <<readVars, orchVars, extVars>>

\* The preview handed to the caller by finalize().
Preview(o) ==
    LET cut == Slice(o.buffer, o.previewBytes)
    IN  IF o.compressProgressBar
        THEN processBackspaces(processCarriageReturns(cut))
        ELSE cut

\* The PersistedCommandOutput returned by finalize().
FinalizeResult(o) ==
    [set |-> TRUE,
     preview |-> Preview(o),
     totalBytes |-> o.totalBytes,
     artifactPath |-> IF o.spilledToDisk THEN o.artifactPath ELSE <<>>,
     truncated |-> o.spilledToDisk]

\* finalize()
Finalize(i) ==
    /\ oi[i].constructed
    /\ oiLog[i].ops < MaxOps
    /\ oi' = [oi EXCEPT ![i].writeStream = IF @ = "null" THEN "null" ELSE "ended"]
    /\ oiLog' = [oiLog EXCEPT ![i].ops = @ + 1,
                              ![i].ended = IF oi[i].writeStream = "null" THEN @ ELSE @ + 1,
                              ![i].result = FinalizeResult(oi[i])]
    /\ UNCHANGED <<files, dirExists>>
    /\ UNCHANGED <<readVars, orchVars, extVars>>

InitOI ==
    /\ oi = [i \in Inst |-> Unconstructed]
    /\ oiLog = [i \in Inst |-> EmptyLog]
    /\ files = [p \in Paths |-> NoFile]
    /\ dirExists \in BOOLEAN

----------------------------------------------------------------------------
(* ReadCommandOutputTool *)

\* DEFAULT_LIMIT = 32 * 1024
DEFAULT_LIMIT == 32 * KiB

Digits == {"0", "1", "2", "3", "4", "5", "6", "7", "8", "9"}

\* The pattern without its end anchor: /^cmd-\d+\.txt/
isValidArtifactId_NoEndAnchor(artifactId) ==
    \E n \in 9..Len(artifactId) :
        /\ SubSeq(artifactId, 1, 4) = <<"c", "m", "d", "-">>
        /\ SubSeq(artifactId, n - 3, n) = <<".", "t", "x", "t">>
        /\ \A k \in 5..(n - 4) : artifactId[k] \in Digits

\* /^cmd-\d+\.txt$/.test(artifactId)
isValidArtifactId(artifactId) ==
    LET n == Len(artifactId)
    IN  /\ n >= 9
        /\ SubSeq(artifactId, 1, 4) = <<"c", "m", "d", "-">>
        /\ SubSeq(artifactId, n - 3, n) = <<".", "t", "x", "t">>
        /\ \A k \in 5..(n - 4) : artifactId[k] \in Digits

\* Well-formed artifact ids.
WellFormedIds ==
    { <<"c", "m", "d", "-", "1", ".", "t", "x", "t">>,
      <<"c", "m", "d", "-", "1", "2", ".", "t", "x", "t">>,
      <<"c", "m", "d", "-", "2", ".", "t", "x", "t">> }

\* Ids malformed in each part of the pattern; the last four are
\* path-traversal strings.
MalformedIds ==
    { <<"c", "m", "d", "-", ".", "t", "x", "t">>,
      <<"c", "m", "d", "-", "1", "x", "t", "x", "t">>,
      <<"c", "m", "d", "-", "1", "a", ".", "t", "x", "t">>,
      <<"c", "m", "d", "-", "1", ".", "t", "x", "t", "NL">>,
      <<".", ".", "/", ".", ".", "/", "e", "t", "c", "/", "p", "a", "s", "s", "w", "d">>,
      <<".", ".", "/", "c", "m", "d", "-", "1", ".", "t", "x", "t">>,
      <<"c", "m", "d", "-", "1", ".", "t", "x", "t", "/", ".", ".", "/", "x">>,
      <<"c", "m", "d", "-", "1", "/", ".", ".", "/", "2", ".", "t", "x", "t">> }

Missing == <<"ENOENT">>

\* File contents, as bytes: "NL" is a line feed, "L2" and "T" are the lead
\* byte and the continuation byte of a two-byte character.
FileContents ==
    { <<>>, <<"x">>, <<"x", "NL", "y">>, <<"x", "y", "NL", "y", "NL">>,
      <<"x", "L2", "T", "y">> }

\* buffer.toString("utf8"): a two-byte sequence becomes one character; a
\* lead byte without its continuation and a continuation byte without its
\* lead become U+FFFD each.
RECURSIVE Utf8Decode(_)
Utf8Decode(bytes) ==
    IF bytes = <<>> THEN <<>>
    ELSE IF bytes[1] = "L2"
         THEN IF Len(bytes) >= 2 /\ bytes[2] = "T"
              THEN <<"E2">> \o Utf8Decode(SubSeq(bytes, 3, Len(bytes)))
              ELSE <<"FFFD">> \o Utf8Decode(Tail(bytes))
         ELSE IF bytes[1] = "T"
              THEN <<"FFFD">> \o Utf8Decode(Tail(bytes))
              ELSE <<bytes[1]>> \o Utf8Decode(Tail(bytes))

\* The UTF-8 bytes of a string.
RECURSIVE Utf8Encode(_)
Utf8Encode(text) ==
    IF text = <<>> THEN <<>>
    ELSE (CASE text[1] = "E2" -> <<"L2", "T">>
            [] text[1] = "FFFD" -> <<"EF", "BF", "BD">>
            [] OTHER -> <<text[1]>>)
         \o Utf8Encode(Tail(text))

\* The files a path can resolve to: the artifacts of the task directory and,
\* through "..", files outside it.
ReadablePaths ==
    { <<"c", "m", "d", "-", "1", ".", "t", "x", "t">>,
      <<"c", "m", "d", "-", "1", "2", ".", "t", "x", "t">>,
      <<".", ".", "/", ".", ".", "/", "e", "t", "c", "/", "p", "a", "s", "s", "w", "d">> }

FileAt(path) == IF path \in DOMAIN artifacts THEN artifacts[path] ELSE Missing

RECURSIVE CountNL(_)
CountNL(bytes) ==
    IF bytes = <<>> THEN 0
    ELSE (IF bytes[1] = "NL" THEN 1 ELSE 0) + CountNL(Tail(bytes))

\* content.split("\n")
RECURSIVE SplitLines(_, _)
SplitLines(cur, rest) ==
    IF rest = <<>> THEN <<cur>>
    ELSE IF rest[1] = "NL" THEN <<cur>> \o SplitLines(<<>>, Tail(rest))
    ELSE SplitLines(Append(cur, rest[1]), Tail(rest))

\* addLineNumbers(content, startLine)
addLineNumbers(content, startLine) ==
    LET lines == SplitLines(<<>>, content)
    IN  [k \in 1..Len(lines) |-> [lineNumber |-> startLine + k - 1, content |-> lines[k]]]

\* readArtifact(artifactPath, offset, limit, totalSize): the window of bytes
\* [offset, offset + min(limit, totalSize - offset)) with its header fields.
readArtifact(artifactPath, offset, limit, totalSize) ==
    LET bytes == FileAt(artifactPath)
        want == Min(limit, totalSize - offset)
        bytesRead == Min(want, Len(bytes) - offset)
        content == Utf8Decode(SubSeq(bytes, offset + 1, offset + bytesRead))
        startLineNumber == IF offset > 0 THEN CountNL(SubSeq(bytes, 1, offset)) + 1 ELSE 1
        endOffset == offset + bytesRead
    IN  [kind |-> "read", artifactId |-> artifactPath, totalSize |-> totalSize,
         offset |-> offset, endOffset |-> endOffset,
         truncated |-> endOffset < totalSize,
         content |-> content,
         lines |-> addLineNumbers(content, startLineNumber)]

\* regex.test(line) for a one-character pattern
LineMatches(line, pattern) == \E k \in 1..Len(line) : line[k] = pattern

\* The loop of searchInArtifact: matching lines, in order, until one would
\* pass the byte limit.
RECURSIVE CollectMatches(_, _, _, _, _)
CollectMatches(lines, k, pattern, limit, totalMatchBytes) ==
    IF k > Len(lines) THEN <<>>
    ELSE IF LineMatches(lines[k], pattern)
         THEN IF totalMatchBytes + Len(lines[k]) > limit
              THEN <<>>
              ELSE <<[lineNumber |-> k, content |-> lines[k]]>>
                   \o CollectMatches(lines, k + 1, pattern, limit, totalMatchBytes + Len(lines[k]))
         ELSE CollectMatches(lines, k + 1, pattern, limit, totalMatchBytes)

\* searchInArtifact(artifactPath, pattern, totalSize, limit)
searchInArtifact(artifactPath, pattern, totalSize, limit) ==
    LET lines == SplitLines(<<>>, FileAt(artifactPath))
    IN  [kind |-> "search", artifactId |-> artifactPath, totalSize |-> totalSize,
         matches |-> CollectMatches(lines, 1, pattern, limit, 0)]

ErrorResult(why) == [kind |-> "error", why |-> why]

NoSearch == "none"

\* A catch block that says the error and pushes no result.
CatchReadError_Silent(fsLog) ==
    [pushed |-> <<>>, fs |-> fsLog,
     task |-> [task EXCEPT !.didToolFailInCurrentTurn = TRUE]]

\* catch (error) of execute: the error is said and pushed as the result.
CatchReadError(fsLog) ==
    [pushed |-> <<ErrorResult("read_failed")>>, fs |-> fsLog,
     task |-> [task EXCEPT !.didToolFailInCurrentTurn = TRUE]]

\* The outcome of execute(params): the results pushed, the filesystem calls
\* made, the messages said and the Task fields, in the order of the code.
\* storage: whether the global storage path is available; ioFails: whether
\* the read of the file throws.
ExecuteOutcome(params, storage, ioFails) ==
    LET id == params.artifact_id
        mistake == [task EXCEPT !.consecutiveMistakeCount = @ + 1,
                                !.toolErrors = @ + 1,
                                !.didToolFailInCurrentTurn = TRUE]
    IN  IF id = <<>>
        THEN [pushed |-> <<ErrorResult("missing_param")>>, fs |-> <<>>, task |-> mistake]
        ELSE IF ~isValidArtifactId(id)
        THEN [pushed |-> <<ErrorResult("invalid_artifact_id")>>, fs |-> <<>>, task |-> mistake]
        ELSE IF ~storage
        THEN [pushed |-> <<ErrorResult("no_storage")>>, fs |-> <<>>, task |-> task]
        ELSE IF FileAt(id) = Missing
        THEN [pushed |-> <<ErrorResult("not_found")>>,
              fs |-> <<[op |-> "access", path |-> id]>>,
              task |-> [task EXCEPT !.didToolFailInCurrentTurn = TRUE]]
        ELSE LET totalSize == Len(FileAt(id))
                 statLog == <<[op |-> "access", path |-> id], [op |-> "stat", path |-> id]>>
             IN  IF params.offset < 0 \/ params.offset >= totalSize
                 THEN [pushed |-> <<ErrorResult("invalid_offset")>>, fs |-> statLog, task |-> task]
                 ELSE LET readOp == IF params.search # NoSearch THEN "readFile" ELSE "open"
                          readLog == Append(statLog, [op |-> readOp, path |-> id])
                      IN  IF ioFails
                          THEN CatchReadError(readLog)
                          ELSE [pushed |->
                                  << IF params.search # NoSearch
                                     THEN searchInArtifact(id, params.search, totalSize, params.limit)
                                     ELSE readArtifact(id, params.offset, params.limit, totalSize) >>,
                                fs |-> readLog,
                                task |-> [task EXCEPT !.consecutiveMistakeCount = 0]]

Offsets == {-1, 0, 1, 3}
Limits == {1, 2, DEFAULT_LIMIT}
Searches == {NoSearch, "y"}

\* The parameters of a call: every artifact_id (absent, malformed or
\* well-formed) with the default offset and limit, and the well-formed ones
\* with every search, offset and limit.
ParamInputs ==
    { [artifact_id |-> id, search |-> NoSearch, offset |-> 0, limit |-> DEFAULT_LIMIT] :
         id \in {<<>>} \cup MalformedIds \cup WellFormedIds }
    \cup
    { [artifact_id |-> id, search |-> search, offset |-> offset, limit |-> limit] :
         id \in WellFormedIds, search \in Searches, offset \in Offsets, limit \in Limits }

\* execute(params, task, callbacks)
Execute(params, storage, ioFails) ==
    LET out == ExecuteOutcome(params, storage, ioFails)
    IN  /\ call.count < MaxReads
        /\ call' = [params |-> params, pushed |-> out.pushed, fs |-> out.fs,
                    count |-> call.count + 1]
        /\ task' = out.task
        /\ UNCHANGED artifacts
        /\ UNCHANGED <<oiVars, orchVars, extVars>>

NoCall ==
    [params |-> [artifact_id |-> <<>>, search |-> NoSearch, offset |-> 0, limit |-> DEFAULT_LIMIT],
     pushed |-> <<>>, fs |-> <<>>, count |-> 0]

InitRead ==
    /\ \E c1 \in FileContents \cup {Missing} :
          artifacts = [p \in ReadablePaths |->
                         CASE p = <<"c", "m", "d", "-", "1", ".", "t", "x", "t">> -> c1
                           [] p = <<"c", "m", "d", "-", "1", "2", ".", "t", "x", "t">> -> <<"y", "NL", "x", "y">>
                           [] OTHER -> <<"x", "NL">>]
    /\ task = [consecutiveMistakeCount |-> 0, toolErrors |-> 0, didToolFailInCurrentTurn |-> FALSE]
    /\ call = NoCall

----------------------------------------------------------------------------
(* Tool orchestrator (reference pseudo-code of the terminal spawning tool) *)

ApprovalPolicies == {"Never", "UnlessTrusted", "OnFailure", "OnRequest"}
SandboxPolicies == {"ReadOnly", "WorkspaceWrite", "DangerFullAccess", "ExternalSandbox"}
SandboxTypes == {"None", "MacosSeatbelt", "LinuxSeccomp", "WindowsRestricted"}
ReviewDecisions == {"Approved", "ApprovedForSession", "Denied", "Abort"}

\* Commands: one known-safe, one mutating, one the exec policy forbids.
Commands == {"ls", "rm", "forbidden"}

is_known_safe_command(command) == command = "ls"

\* compute_approval_requirement(request, policy): the exec policy's verdict,
\* then the table of approval policies.
compute_approval_requirement(command, policy, sandbox_policy) ==
    IF command = "forbidden" THEN "Forbidden"
    ELSE CASE policy = "Never" -> "Skip"
           [] policy = "UnlessTrusted" ->
                IF is_known_safe_command(command) THEN "Skip" ELSE "NeedsApproval"
           [] policy = "OnFailure" -> "Skip"
           [] OTHER ->
                IF sandbox_policy = "DangerFullAccess" THEN "Skip" ELSE "NeedsApproval"

\* approval_key(request): the normalized fingerprint of the command text;
\* the normalization drops insignificant whitespace.
approval_key(command) == IF command = "rm " THEN "rm" ELSE command

\* A selection that forgets the externally sandboxed policy.
select_sandbox_DangerOnly(policy) ==
    IF policy = "DangerFullAccess" THEN "None" ELSE platform

\* select_sandbox(policy)
select_sandbox(policy) ==
    IF policy = "DangerFullAccess" \/ policy = "ExternalSandbox"
    THEN "None"
    ELSE platform

\* EXEC_TIMEOUT_EXIT_CODE
EXEC_TIMEOUT_EXIT_CODE == 124

\* Output lines of a command, stdout then stderr.
OutputTexts ==
    { <<"hi">>, <<"rm: Permission denied">>, <<"OPERATION NOT PERMITTED">>,
      <<"Read-only file system">>, <<"No such file">> }

\* text.lowercase(), line by line
Lowercase(line) ==
    CASE line = "rm: Permission denied" -> "rm: permission denied"
      [] line = "OPERATION NOT PERMITTED" -> "operation not permitted"
      [] line = "Read-only file system" -> "read-only file system"
      [] line = "No such file" -> "no such file"
      [] OTHER -> line

\* k in text, for the lines of the model
KeywordIn(k, line) ==
    \/ line = k
    \/ (k = "permission denied" /\ line = "rm: permission denied")

SANDBOX_DENIED_KEYWORDS == {"operation not permitted", "permission denied", "read-only file system"}

\* A denial test that does not look at the exit code.
is_sandbox_denied_AnyExit(sb, output) ==
    IF sb = "None"
    THEN FALSE
    ELSE \E k \in SANDBOX_DENIED_KEYWORDS :
            \E n \in 1..Len(output.text) : KeywordIn(k, Lowercase(output.text[n]))

\* is_sandbox_denied(sandbox, output)
is_sandbox_denied(sb, output) ==
    IF sb = "None" \/ output.exit_code = 0
    THEN FALSE
    ELSE \E k \in SANDBOX_DENIED_KEYWORDS :
            \E n \in 1..Len(output.text) : KeywordIn(k, Lowercase(output.text[n]))

\* Whether the approval policy lets the orchestrator prompt for a retry. The
\* orchestration sketch tests approval_policy != Never; the Retry Logic
\* section excludes OnRequest as well. Under OnRequest both outcomes are kept.
PolicyAllowsRetry(policy) ==
    CASE policy = "Never" -> {FALSE}
      [] policy = "OnRequest" -> {FALSE, TRUE}
      [] OTHER -> {TRUE}

\* A retry offered after every denied attempt.
RetryOffered_EveryAttempt(attempt, sb, output, allowed, escalate) ==
    /\ is_sandbox_denied(sb, output)
    /\ escalate
    /\ allowed

\* Whether the orchestrator asks for a no-sandbox retry after an attempt: only
\* after the first one, on a sandbox denial, for a runtime that escalates on
\* failure, under an approval policy that can prompt.
RetryOffered(attempt, sb, output, allowed, escalate) ==
    /\ attempt = 1
    /\ is_sandbox_denied(sb, output)
    /\ escalate
    /\ allowed

NoAppr ==
    [requirement |-> "none", decision |-> "none", prompts |-> 0,
     retryDecision |-> "none", retryPrompts |-> 0]

NoReq ==
    [command |-> "ls", approval_policy |-> "Never", sandbox_policy |-> "ReadOnly",
     escalate_on_failure |-> FALSE]

\* spawn_child(transform_for_sandbox(exec_params, sb))
Spawn(sb) == Append(spawned, [sandbox |-> sb, status |-> "running", groupKilled |-> FALSE])

\* run_shell_tool, up to the first suspension: the approval requirement and,
\* unless a prompt is needed, the first spawn.
BeginCall(command, policy, sandbox_policy, escalate) ==
    LET requirement == compute_approval_requirement(command, policy, sandbox_policy)
        key == approval_key(command)
        cached == requirement = "NeedsApproval" /\ key \in cache
    IN  /\ pc \in {"idle", "done", "rejected"}
        /\ ncalls < MaxCalls
        /\ ncalls' = ncalls + 1
        /\ req' = [command |-> command, approval_policy |-> policy,
                   sandbox_policy |-> sandbox_policy, escalate_on_failure |-> escalate]
        /\ outputs' = <<>>
        /\ UNCHANGED <<cache, platform, answers>>
        /\ UNCHANGED <<oiVars, readVars, extVars>>
        /\ CASE requirement = "Forbidden" ->
                  /\ pc' = "rejected"
                  /\ result' = [kind |-> "Rejected", reason |-> "forbidden"]
                  /\ appr' = [NoAppr EXCEPT !.requirement = requirement]
                  /\ spawned' = <<>>
                  /\ sandbox' = "None"
             [] requirement = "NeedsApproval" /\ ~cached ->
                  /\ pc' = "awaitApproval"
                  /\ result' = [kind |-> "none"]
                  /\ appr' = [NoAppr EXCEPT !.requirement = requirement, !.prompts = 1]
                  /\ spawned' = <<>>
                  /\ sandbox' = "None"
             [] OTHER ->
                  /\ pc' = "executing"
                  /\ result' = [kind |-> "none"]
                  /\ appr' = [NoAppr EXCEPT !.requirement = requirement,
                                            !.decision = IF cached THEN "ApprovedForSession"
                                                         ELSE "Approved"]
                  /\ sandbox' = select_sandbox(sandbox_policy)
                  /\ spawned' = <<[sandbox |-> select_sandbox(sandbox_policy),
                                   status |-> "running", groupKilled |-> FALSE]>>

\* A rejection test that lets Abort through.
IsRejection_DeniedOnly(decision) == decision = "Denied"

\* decision in [Denied, Abort]
IsRejection(decision) == decision \in {"Denied", "Abort"}

\* A cache that remembers a one-time approval as well.
ShouldCache_AnyApproval(decision) == decision \in {"Approved", "ApprovedForSession"}

\* if decision == ApprovedForSession: cache.put(key, decision)
ShouldCache(decision) == decision = "ApprovedForSession"

\* The human answers the approval prompt: check_approval returns and
\* run_shell_tool goes on to the first spawn, or throws Rejected.
ApprovalDecided(decision) ==
    /\ pc = "awaitApproval"
    /\ appr' = [appr EXCEPT !.decision = decision]
    /\ answers' = Append(answers, [command |-> req.command, decision |-> decision])
    /\ cache' = IF ShouldCache(decision)
                THEN cache \cup {approval_key(req.command)}
                ELSE cache
    /\ IF IsRejection(decision)
       THEN /\ pc' = "rejected"
            /\ result' = [kind |-> "Rejected", reason |-> "user denied"]
            /\ UNCHANGED <<sandbox, spawned>>
       ELSE /\ pc' = "executing"
            /\ sandbox' = select_sandbox(req.sandbox_policy)
            /\ spawned' = Spawn(select_sandbox(req.sandbox_policy))
            /\ UNCHANGED result
    /\ UNCHANGED <<req, outputs, ncalls, platform>>
    /\ UNCHANGED <<oiVars, readVars, extVars>>

\* What run_shell_tool does with the output of an attempt: prompt for the
\* retry, or format the output and return.
AfterAttempt(output) ==
    LET attempt == Len(spawned)
    IN  /\ outputs' = Append(outputs, output)
        /\ \E allowed \in PolicyAllowsRetry(req.approval_policy) :
              IF RetryOffered(attempt, sandbox, output, allowed, req.escalate_on_failure)
              THEN /\ pc' = "awaitRetry"
                   /\ appr' = [appr EXCEPT !.retryPrompts = @ + 1]
                   /\ UNCHANGED result
              ELSE /\ pc' = "done"
                   /\ result' = [kind |-> "ToolOutput", output |-> output,
                                 success |-> output.exit_code = 0]
                   /\ UNCHANGED appr

ExitCodes == {0, 1}

\* execute_with_timeout: child.wait() wins the select.
ChildExits(exit_code, text) ==
    /\ pc = "executing"
    /\ spawned' = [spawned EXCEPT ![Len(spawned)].status = "exited"]
    /\ AfterAttempt([exit_code |-> exit_code, text |-> text, timed_out |-> FALSE])
    /\ UNCHANGED <<req, cache, sandbox, ncalls, platform, answers>>
    /\ UNCHANGED <<oiVars, readVars, extVars>>

\* A timeout reported with the exit code of an ordinary failure.
TimeoutOutput_PlainFailure == [exit_code |-> 1, text |-> <<>>, timed_out |-> TRUE]

\* The ExecOutput of a timed-out attempt.
TimeoutOutput == [exit_code |-> EXEC_TIMEOUT_EXIT_CODE, text |-> <<>>, timed_out |-> TRUE]

\* kill_process_group(child.pid()); child.kill()
KillChild(child) == [child EXCEPT !.status = "killed", !.groupKilled = TRUE]

\* execute_with_timeout: sleep(timeout) wins the select.
TimeoutExpires ==
    /\ pc = "executing"
    /\ spawned' = [spawned EXCEPT ![Len(spawned)] = KillChild(@)]
    /\ AfterAttempt(TimeoutOutput)
    /\ UNCHANGED <<req, cache, sandbox, ncalls, platform, answers>>
    /\ UNCHANGED <<oiVars, readVars, extVars>>

\* The human answers the no-sandbox retry prompt.
RetryDecided(decision) ==
    /\ pc = "awaitRetry"
    /\ appr' = [appr EXCEPT !.retryDecision = decision]
    /\ IF decision = "Approved"
       THEN /\ pc' = "executing"
            /\ spawned' = Spawn("None")
            /\ UNCHANGED result
       ELSE /\ pc' = "done"
            /\ result' = [kind |-> "ToolOutput", output |-> outputs[Len(outputs)],
                          success |-> outputs[Len(outputs)].exit_code = 0]
            /\ UNCHANGED spawned
    /\ UNCHANGED <<req, cache, sandbox, outputs, ncalls, platform, answers>>
    /\ UNCHANGED <<oiVars, readVars, extVars>>

InitOrch ==
    /\ pc = "idle"
    /\ req = NoReq
    /\ appr = NoAppr
    /\ cache = {}
    /\ sandbox = "None"
    /\ spawned = <<>>
    /\ outputs = <<>>
    /\ result = [kind |-> "none"]
    /\ ncalls = 0
    /\ answers = <<>>
    /\ platform \in {"None", "MacosSeatbelt", "LinuxSeccomp"}

----------------------------------------------------------------------------
(* Sandbox selection and shell argument derivation *)

OperatingSystems == {"macos", "linux", "windows"}

Hosts == [os : OperatingSystems, available : BOOLEAN]

\* get_platform_sandbox(): the sandbox backend of the host's operating
\* system (Seatbelt on macOS, Landlock/seccomp on Linux, restricted token on
\* Windows), or nothing when it cannot be used.
get_platform_sandbox(os, available) ==
    IF ~available
    THEN "None"
    ELSE CASE os = "macos" -> "MacosSeatbelt"
           [] os = "linux" -> "LinuxSeccomp"
           [] OTHER -> "WindowsRestricted"

\* sandbox_mode_for_first_attempt(request)
FirstAttemptModes == {"NoOverride", "BypassSandboxFirstAttempt"}

\* SANDBOX SELECTION PHASE: the per-call override first, then the policy.
sandbox_for_first_attempt(mode, policy) ==
    IF mode = "BypassSandboxFirstAttempt" THEN "None" ELSE select_sandbox(policy)

ShellTypes == {"Zsh", "Bash", "Sh", "PowerShell", "Cmd"}

\* Shell { type, path }: the path is whatever discovery found for the type.
ShellPaths(type) ==
    CASE type = "Zsh" -> {"/bin/zsh"}
      [] type = "Bash" -> {"/bin/bash", "/usr/local/bin/bash"}
      [] type = "Sh" -> {"/bin/sh"}
      [] type = "PowerShell" -> {"pwsh", "powershell.exe"}
      [] OTHER -> {"cmd.exe"}

Shells == UNION { { [type |-> t, path |-> p] : p \in ShellPaths(t) } : t \in ShellTypes }

\* Freeform command texts, some of which look like a shell flag.
CommandTexts == {"ls -la", "-c", "-NoProfile", "echo a && exit 1"}

\* A flag choice with the two cases of login exchanged.
derive_exec_args_LoginSwapped(shell, command, login) ==
    CASE shell.type \in {"Zsh", "Bash", "Sh"} ->
            <<shell.path, IF login THEN "-c" ELSE "-lc", command>>
      [] shell.type = "PowerShell" ->
            <<shell.path>> \o (IF login THEN <<"-NoProfile">> ELSE <<>>)
                           \o <<"-Command", command>>
      [] OTHER -> <<shell.path, "/c", command>>

\* derive_exec_args(shell, command, login)
derive_exec_args(shell, command, login) ==
    CASE shell.type \in {"Zsh", "Bash", "Sh"} ->
            <<shell.path, IF login THEN "-lc" ELSE "-c", command>>
      [] shell.type = "PowerShell" ->
            <<shell.path>> \o (IF ~login THEN <<"-NoProfile">> ELSE <<>>)
                           \o <<"-Command", command>>
      [] OTHER -> <<shell.path, "/c", command>>

NoFn == [op |-> "none"]

\* The orchestrator selects the sandbox of a first attempt.
SelectSandbox(mode, policy) ==
    /\ fn' = [op |-> "select_sandbox", mode |-> mode, policy |-> policy,
              result |-> sandbox_for_first_attempt(mode, policy)]
    /\ UNCHANGED <<host, oiVars, readVars, orchVars, htbVars, storeVars, migVars, purgeVars, laterVars>>

\* A runtime derives the argv of a freeform command.
DeriveExecArgs(shell, command, login) ==
    /\ fn' = [op |-> "derive_exec_args", shell |-> shell, command |-> command,
              login |-> login, result |-> derive_exec_args(shell, command, login)]
    /\ UNCHANGED <<host, oiVars, readVars, orchVars, htbVars, storeVars, migVars, purgeVars, laterVars>>

QuietFn ==
    /\ host = [os |-> "linux", available |-> FALSE]
    /\ fn = NoFn

----------------------------------------------------------------------------
(* HeadTailBuffer *)

\* UNIFIED_EXEC_OUTPUT_MAX_BYTES, scaled down
MAX_BYTES == 4 * KiB

\* Number of pushes followed, and the longest chunk pushed.
MaxPushes == 4
MaxChunkLen == 3

HeadBudget == MAX_BYTES \div 2
TailBudget == MAX_BYTES - HeadBudget

\* The last n elements of s (all of s when it is shorter).
Suffix(s, n) == SubSeq(s, Len(s) - Min(n, Len(s)) + 1, Len(s))

RECURSIVE Concat(_)
Concat(chunks) == IF chunks = <<>> THEN <<>> ELSE chunks[1] \o Concat(Tail(chunks))

\* The next len bytes of the process output: byte k of the output is the
\* number k, so that any loss or reordering shows.
NextChunk(len) ==
    LET sofar == Len(Concat(htbPushed)) IN [k \in 1..len |-> sofar + k]

EmptyBuffer == [head |-> <<>>, tail |-> <<>>, total_bytes |-> 0]

\* The chunk is retained whole, after the chunks already held.
KeepWhole(b, chunk) ==
    [b EXCEPT !.head = Append(@, chunk), !.total_bytes = @ + Len(chunk)]

\* An eviction that keeps the oldest bytes after the head instead of the
\* newest ones.
Evict_KeepsOldest(b, chunk) ==
    LET overflowed == b.total_bytes > MAX_BYTES
        all == Concat(b.head) \o chunk
        headBytes == IF overflowed THEN Concat(b.head) ELSE Slice(all, HeadBudget)
        rest == IF overflowed THEN Concat(b.tail) \o chunk
                ELSE SubSeq(all, HeadBudget + 1, Len(all))
    IN  IF b.total_bytes + Len(chunk) <= MAX_BYTES
        THEN KeepWhole(b, chunk)
        ELSE [head |-> <<headBytes>>,
              tail |-> <<Slice(rest, TailBudget)>>,
              total_bytes |-> b.total_bytes + Len(chunk)]

\* push_chunk once the cap is reached: evict from the middle what does not
\* fit, keep the first HeadBudget bytes and the last TailBudget bytes.
Evict(b, chunk) ==
    LET overflowed == b.total_bytes > MAX_BYTES
        all == Concat(b.head) \o chunk
        headBytes == IF overflowed THEN Concat(b.head) ELSE Slice(all, HeadBudget)
        rest == IF overflowed THEN Concat(b.tail) \o chunk
                ELSE SubSeq(all, HeadBudget + 1, Len(all))
    IN  IF b.total_bytes + Len(chunk) <= MAX_BYTES
        THEN KeepWhole(b, chunk)
        ELSE [head |-> <<headBytes>>,
              tail |-> <<Suffix(rest, TailBudget)>>,
              total_bytes |-> b.total_bytes + Len(chunk)]

\* push_chunk(chunk): if (total_bytes >= MAX_BYTES) evict, with the chunk
\* counted in total_bytes.
push_chunk(b, chunk) ==
    IF b.total_bytes + Len(chunk) >= MAX_BYTES
    THEN Evict(b, chunk)
    ELSE KeepWhole(b, chunk)

\* snapshot_chunks(): [...head, ...tail]
snapshot_chunks(b) == b.head \o b.tail

PushChunk(len) ==
    /\ Len(htbPushed) < MaxPushes
    /\ htb' = push_chunk(htb, NextChunk(len))
    /\ htbPushed' = Append(htbPushed, NextChunk(len))
    /\ UNCHANGED <<oiVars, readVars, orchVars, fnVars, storeVars, migVars, purgeVars, laterVars>>

QuietHtb ==
    /\ htb = EmptyBuffer
    /\ htbPushed = <<>>

----------------------------------------------------------------------------
(* ProcessStore: the interactive sessions *)

MAX_UNIFIED_EXEC_PROCESSES == 64
WARNING_UNIFIED_EXEC_PROCESSES == 60

\* The size of the "recently used" set that pruning protects.
RECENTLY_USED == 8

\* Opens and uses followed from a store that already holds InitialSessions
\* running sessions.
InitialSessions == 61
MaxOpens == 5
MaxUses == 2

\* The sessions that are written to, polled or seen to exit: two of the
\* oldest and one recent one.
WatchedIds == {1, 2, InitialSessions - 1}

RemoveAt(s, k) == SubSeq(s, 1, k - 1) \o SubSeq(s, k + 1, Len(s))

PositionOf(s, id) == CHOOSE k \in 1..Len(s) : s[k].id = id

\* The positions of the most recently used sessions, which pruning spares.
ProtectedPositions(s) == { k \in 1..Len(s) : k > Len(s) - RECENTLY_USED }

\* A pruning that takes the least recently used session, exited or not.
PruneVictims_LruOnly(s) ==
    LET candidates == (1..Len(s)) \ ProtectedPositions(s)
    IN  IF candidates = {} THEN {}
        ELSE { CHOOSE k \in candidates : \A j \in candidates : k <= j }

\* Pruning policy when at capacity: an exited session outside the recently
\* used set if there is one, else the least recently used session outside it.
PruneVictims(s) ==
    LET candidates == (1..Len(s)) \ ProtectedPositions(s)
        exited == { k \in candidates : s[k].exited }
    IN  IF exited # {} THEN exited
        ELSE IF candidates = {} THEN {}
        ELSE { CHOOSE k \in candidates : \A j \in candidates : k <= j }

NoOpen == [opened |-> 0, before |-> <<>>, events |-> <<>>, warned |-> FALSE]

\* open(command): prune one session when the store is at capacity (its
\* process handle is closed, then its entry removed), then insert the new one.
OpenSession ==
    LET entry == [id |-> storeNext, exited |-> FALSE]
        warned == Len(store) + 1 >= WARNING_UNIFIED_EXEC_PROCESSES
    IN  /\ storeNext < InitialSessions + MaxOpens + 1
        /\ storeNext' = storeNext + 1
        /\ UNCHANGED storeUses
        /\ IF Len(store) >= MAX_UNIFIED_EXEC_PROCESSES
           THEN \E k \in PruneVictims(store) :
                    /\ store' = Append(RemoveAt(store, k), entry)
                    /\ storeLast' = [opened |-> entry.id, before |-> store,
                                     events |-> << <<"close_handle", store[k].id>>,
                                                   <<"remove", store[k].id>>,
                                                   <<"insert", entry.id>> >>,
                                     warned |-> TRUE]
           ELSE /\ store' = Append(store, entry)
                /\ storeLast' = [opened |-> entry.id, before |-> store,
                                 events |-> << <<"insert", entry.id>> >>,
                                 warned |-> warned]
        /\ UNCHANGED <<oiVars, readVars, orchVars, fnVars, htbVars, migVars, purgeVars, laterVars>>

\* write(session_id, bytes) or poll(session_id, ...): the session becomes
\* the most recently used one.
UseSession(id) ==
    /\ \E k \in 1..Len(store) : store[k].id = id
    /\ storeUses < MaxUses
    /\ storeUses' = storeUses + 1
    /\ LET k == PositionOf(store, id)
       IN  store' = Append(RemoveAt(store, k), store[k])
    /\ UNCHANGED <<storeNext, storeLast>>
    /\ UNCHANGED <<oiVars, readVars, orchVars, fnVars, htbVars, migVars, purgeVars, laterVars>>

\* The process of a session exits; its entry stays in the store.
SessionExits(id) ==
    /\ \E k \in 1..Len(store) : store[k].id = id /\ ~store[k].exited
    /\ store' = [store EXCEPT ![PositionOf(store, id)].exited = TRUE]
    /\ UNCHANGED <<storeNext, storeUses, storeLast>>
    /\ UNCHANGED <<oiVars, readVars, orchVars, fnVars, htbVars, migVars, purgeVars, laterVars>>

QuietStore ==
    /\ store = <<>>
    /\ storeNext = 1
    /\ storeUses = 0
    /\ storeLast = NoOpen

----------------------------------------------------------------------------
(* Settings migrations *)

\* Calls of runSettingsMigrations followed.
MaxRuns == 2

\* A stored JavaScript value: its type and its printed form. An object holds
\* its fields instead.
Undefined == <<"undefined", "undefined">>
Bool(b) == <<"boolean", IF b THEN "true" ELSE "false">>
Num(repr) == <<"number", repr>>
Str(text) == <<"string", text>>
Obj(fields) == <<"object", fields>>

\* a == b: equal after conversion, so that a number equals the string that
\* prints like it.
StrictEquals_Loose(a, b) ==
    /\ a[1] # "object"
    /\ b[1] # "object"
    /\ a[2] = b[2]

\* a === b: same type and same value; two objects are never the same here,
\* a stored object and a literal being different references.
StrictEquals(a, b) ==
    /\ a[1] = b[1]
    /\ a[1] # "object"
    /\ a[2] = b[2]

\* !value
Falsy(value) ==
    \/ value[1] = "undefined"
    \/ value \in {Bool(FALSE), Num("0"), Str("")}

\* The keys of migrations[1].historicalDefaults that are followed, in the
\* order of the literal, with their historical defaults.
HistoricalKeys == <<"browserToolEnabled", "maxWorkspaceFiles">>

historicalDefaults ==
    [browserToolEnabled |-> Bool(TRUE),
     soundEnabled |-> Bool(TRUE),
     soundVolume |-> Num("0.5"),
     enableCheckpoints |-> Bool(FALSE),
     checkpointTimeout |-> Num("30"),
     browserViewportSize |-> Str("900x600"),
     remoteBrowserEnabled |-> Bool(FALSE),
     screenshotQuality |-> Num("75"),
     terminalOutputLineLimit |-> Num("500"),
     terminalOutputCharacterLimit |-> Num("50000"),
     terminalShellIntegrationTimeout |-> Num("30000"),
     maxOpenTabsContext |-> Num("20"),
     maxWorkspaceFiles |-> Num("200"),
     showRooIgnoredFiles |-> Bool(TRUE),
     enableSubfolderRules |-> Bool(FALSE),
     maxReadFileLine |-> Num("-1"),
     maxImageFileSize |-> Num("5"),
     maxTotalImageSize |-> Num("20"),
     maxConcurrentFileReads |-> Num("5"),
     includeDiagnosticMessages |-> Bool(TRUE),
     maxDiagnosticMessages |-> Num("50"),
     alwaysAllowFollowupQuestions |-> Bool(FALSE),
     includeTaskHistoryInEnhance |-> Bool(TRUE),
     reasoningBlockCollapsed |-> Bool(TRUE),
     enterBehavior |-> Str("send"),
     includeCurrentTime |-> Bool(TRUE),
     includeCurrentCost |-> Bool(TRUE),
     maxGitStatusFiles |-> Num("0"),
     language |-> Str("en"),
     ttsEnabled |-> Bool(TRUE),
     ttsSpeed |-> Num("1"),
     mcpEnabled |-> Bool(TRUE)]

\* keysToMigrate of migration 2 that are followed, in order.
keysToMigrate == <<"codebaseIndexEnabled", "codebaseIndexQdrantUrl">>

SettingKeys ==
    {"settingsMigrationVersion", "browserToolEnabled", "maxWorkspaceFiles",
     "customInstructions", "codebaseIndexConfig", "codebaseIndexEnabled",
     "codebaseIndexQdrantUrl"}

\* migrations: version -> definition
migrations ==
    [v \in {1, 2} |->
        IF v = 1 THEN [kind |-> "historicalDefaults"] ELSE [kind |-> "customMigration"]]

\* Math.max(...Object.keys(migrations).map(Number))
CURRENT_MIGRATION_VERSION == CHOOSE v \in DOMAIN migrations : \A w \in DOMAIN migrations : w <= v

\* The number stored under settingsMigrationVersion.
VersionReprs == [v \in 0..(CURRENT_MIGRATION_VERSION + 1) |-> ToString(v)]

VersionValue(v) == Num(VersionReprs[v])

NumberOf(value) == CHOOSE v \in DOMAIN VersionReprs : VersionReprs[v] = value[2]

\* getGlobalState("settingsMigrationVersion") ?? 0
StoredVersion(st) ==
    IF st["settingsMigrationVersion"] = Undefined
    THEN 0
    ELSE NumberOf(st["settingsMigrationVersion"])

\* A gate that still lets a fully migrated state through.
IsUpToDate_Strict(currentVersion) == currentVersion > CURRENT_MIGRATION_VERSION

\* currentVersion >= CURRENT_MIGRATION_VERSION
IsUpToDate(currentVersion) == currentVersion >= CURRENT_MIGRATION_VERSION

Update(version, key, value) == [version |-> version, key |-> key, value |-> value]

\* contextProxy.updateGlobalState(key, value), one call after the other
RECURSIVE ApplyUpdates(_, _)
ApplyUpdates(st, updates) ==
    IF updates = <<>> THEN st
    ELSE ApplyUpdates([st EXCEPT ![updates[1].key] = updates[1].value], Tail(updates))

\* The updateGlobalState calls of a historicalDefaults migration: one per
\* key whose stored value is exactly the historical default.
RECURSIVE HistoricalUpdates(_, _, _)
HistoricalUpdates(version, st, keys) ==
    IF keys = <<>> THEN <<>>
    ELSE (IF StrictEquals(st[keys[1]], historicalDefaults[keys[1]])
          THEN <<Update(version, keys[1], Undefined)>>
          ELSE <<>>)
         \o HistoricalUpdates(version, st, Tail(keys))

\* The copies of migration 2: one per key of keysToMigrate whose nested
\* value is not undefined.
RECURSIVE CopyUpdates(_, _, _)
CopyUpdates(version, nested, keys) ==
    IF keys = <<>> THEN <<>>
    ELSE (IF nested[keys[1]] # Undefined
          THEN <<Update(version, keys[1], nested[keys[1]])>>
          ELSE <<>>)
         \o CopyUpdates(version, nested, Tail(keys))

\* A flattening that removes the nested object before it copies the keys.
customMigration_RemovesFirst(version, st) ==
    LET nested == st["codebaseIndexConfig"]
    IN  IF Falsy(nested)
        THEN <<>>
        ELSE <<Update(version, "codebaseIndexConfig", Undefined)>>
             \o CopyUpdates(version, nested[2], keysToMigrate)

\* A flattening that leaves the nested object where it is.
customMigration_KeepsNested(version, st) ==
    IF Falsy(st["codebaseIndexConfig"])
    THEN <<>>
    ELSE CopyUpdates(version, st["codebaseIndexConfig"][2], keysToMigrate)

\* migrations[2].customMigration
customMigration(version, st) ==
    LET nested == st["codebaseIndexConfig"]
    IN  IF Falsy(nested)
        THEN <<>>
        ELSE CopyUpdates(version, nested[2], keysToMigrate)
             \o <<Update(version, "codebaseIndexConfig", Undefined)>>

\* The updateGlobalState calls of one migration on the state it finds.
MigrationUpdates(version, st) ==
    IF version \notin DOMAIN migrations THEN <<>>
    ELSE IF migrations[version].kind = "customMigration"
         THEN customMigration(version, st)
         ELSE HistoricalUpdates(version, st, HistoricalKeys)

\* The loop of runSettingsMigrations from a version on, then the update of
\* settingsMigrationVersion.
RECURSIVE UpdatesFrom(_, _)
UpdatesFrom(version, st) ==
    IF version > CURRENT_MIGRATION_VERSION
    THEN <<Update(0, "settingsMigrationVersion", VersionValue(CURRENT_MIGRATION_VERSION))>>
    ELSE LET updates == MigrationUpdates(version, st)
         IN  updates \o UpdatesFrom(version + 1, ApplyUpdates(st, updates))

\* Every updateGlobalState call of a run that nothing interrupts.
AllUpdates(st) ==
    IF IsUpToDate(StoredVersion(st)) THEN <<>> ELSE UpdatesFrom(StoredVersion(st) + 1, st)

\* runSettingsMigrations(contextProxy). When throws is true, the call of
\* updateGlobalState after the first `done` ones rejects and the run ends
\* there.
RunSettingsMigrations(throws, done) ==
    LET all == AllUpdates(settings)
        made == IF throws THEN SubSeq(all, 1, done) ELSE all
    IN  /\ Len(migLog) < MaxRuns
        /\ throws => done < Len(all)
        /\ ~throws => done = 0
        /\ settings' = ApplyUpdates(settings, made)
        /\ migLog' = Append(migLog, [before |-> settings, updates |-> made,
                                     after |-> settings', threw |-> throws])
        /\ UNCHANGED <<oiVars, readVars, orchVars, fnVars, htbVars, storeVars, purgeVars, laterVars>>

\* settingDefaults, the defaults applied when a setting is read. The entry
\* of checkpointTimeout is DEFAULT_CHECKPOINT_TIMEOUT_SECONDS, a constant of
\* global-settings.js, and is not followed.
settingDefaults ==
    [browserToolEnabled |-> Bool(TRUE),
     browserViewportSize |-> Str("900x600"),
     remoteBrowserEnabled |-> Bool(FALSE),
     screenshotQuality |-> Num("75"),
     soundEnabled |-> Bool(TRUE),
     soundVolume |-> Num("0.5"),
     ttsEnabled |-> Bool(TRUE),
     ttsSpeed |-> Num("1"),
     diffEnabled |-> Bool(TRUE),
     fuzzyMatchThreshold |-> Num("1"),
     enableCheckpoints |-> Bool(FALSE),
     terminalOutputLineLimit |-> Num("500"),
     terminalOutputCharacterLimit |-> Num("50000"),
     terminalShellIntegrationTimeout |-> Num("30000"),
     maxOpenTabsContext |-> Num("20"),
     maxWorkspaceFiles |-> Num("200"),
     showRooIgnoredFiles |-> Bool(FALSE),
     enableSubfolderRules |-> Bool(FALSE),
     maxReadFileLine |-> Num("-1"),
     maxImageFileSize |-> Num("5"),
     maxTotalImageSize |-> Num("20"),
     maxConcurrentFileReads |-> Num("5"),
     includeDiagnosticMessages |-> Bool(TRUE),
     maxDiagnosticMessages |-> Num("50"),
     writeDelayMs |-> Num("1000"),
     alwaysAllowFollowupQuestions |-> Bool(FALSE),
     includeTaskHistoryInEnhance |-> Bool(TRUE),
     reasoningBlockCollapsed |-> Bool(TRUE),
     enterBehavior |-> Str("send"),
     includeCurrentTime |-> Bool(TRUE),
     includeCurrentCost |-> Bool(TRUE),
     maxGitStatusFiles |-> Num("0"),
     language |-> Str("en"),
     mcpEnabled |-> Bool(TRUE),
     codebaseIndexEnabled |-> Bool(FALSE),
     codebaseIndexQdrantUrl |-> Str("http://localhost:6333"),
     codebaseIndexEmbedderProvider |-> Str("openai"),
     codebaseIndexEmbedderBaseUrl |-> Str(""),
     codebaseIndexEmbedderModelId |-> Str(""),
     codebaseIndexEmbedderModelDimension |-> Num("1536"),
     codebaseIndexOpenAiCompatibleBaseUrl |-> Str(""),
     codebaseIndexBedrockRegion |-> Str("us-east-1"),
     codebaseIndexBedrockProfile |-> Str(""),
     codebaseIndexSearchMaxResults |-> Num("100"),
     codebaseIndexSearchMinScore |-> Num("0.4"),
     codebaseIndexOpenRouterSpecificProvider |-> Str("")]

\* A read that applies no default.
getSettingWithDefault_Stored(key, value) == value

\* value ?? settingDefaults[key]
getSettingWithDefault(key, value) ==
    IF value = Undefined THEN settingDefaults[key] ELSE value

\* The settings that migration 1 may clear and that are read with a default.
DefaultedKeys == DOMAIN historicalDefaults \cap DOMAIN settingDefaults

\* A value the user chose, of the type of the default.
CustomValue(default) ==
    IF default[1] = "boolean" THEN Bool(default # Bool(TRUE))
    ELSE IF default[1] = "number" THEN Num("7")
    ELSE Str("custom")

\* What may be stored under a key: nothing, the historical or the current
\* default, a value of the user, or the string printing like the historical
\* default.
StoredValuesOf(key) ==
    {Undefined, historicalDefaults[key], settingDefaults[key],
     CustomValue(settingDefaults[key]), Str(historicalDefaults[key][2])}

NotRead == [called |-> FALSE]

\* The setting `key` is read with its default, migration 1 runs over it, and
\* it is read again.
ReadAroundMigration(key, stored) ==
    LET st == [k \in {key} |-> stored]
        after == ApplyUpdates(st, HistoricalUpdates(1, st, <<key>>))
    IN  /\ ~effective.called
        /\ effective' = [called |-> TRUE, key |-> key, stored |-> stored,
                         cleared |-> after[key] = Undefined,
                         before |-> getSettingWithDefault(key, stored),
                         after |-> getSettingWithDefault(key, after[key])]
        /\ UNCHANGED <<oiVars, readVars, orchVars, fnVars, htbVars, storeVars, migVars, purgeVars, cleanVars, foldVars>>

QuietDefaults == effective = NotRead

QuietMig ==
    /\ settings = [k \in SettingKeys |-> Undefined]
    /\ migLog = <<>>

\* What may be stored when the extension starts.
NestedConfigs ==
    { [codebaseIndexEnabled |-> Bool(FALSE), codebaseIndexQdrantUrl |-> Undefined],
      [codebaseIndexEnabled |-> Bool(TRUE), codebaseIndexQdrantUrl |-> Str("http://custom:6333")] }

StoredVersions == {Undefined} \cup { VersionValue(v) : v \in DOMAIN VersionReprs }

StoredConfigs == {Undefined} \cup { Obj(n) : n \in NestedConfigs }

StoredSettings ==
    { [settingsMigrationVersion |-> version,
       browserToolEnabled |-> browser,
       maxWorkspaceFiles |-> maxFiles,
       customInstructions |-> custom,
       codebaseIndexConfig |-> nested,
       codebaseIndexEnabled |-> Undefined,
       codebaseIndexQdrantUrl |-> Undefined] :
        version \in StoredVersions,
        browser \in {Undefined, Bool(TRUE), Bool(FALSE)},
        maxFiles \in {Undefined, Num("200"), Num("300"), Str("200")},
        custom \in {Undefined, Str("mine"), Str("200")},
        nested \in StoredConfigs }

----------------------------------------------------------------------------
(* Task history retention *)

\* Milliseconds of a day: 24 * 60 * 60 * 1000
DayMs == 24 * 60 * 60 * 1000

\* Date.now() during the call
Now == 10 * DayMs

\* Passes of removeDirAggressive.
AggressivePasses == 3

TaskIds == <<"task-a", "task-b">>

Gone == [present |-> FALSE]

\* The retention settings followed, with what parseInt(value, 10) gives;
\* not a number for "never".
RetentionSettings == {"never", "0", "3", "7"}

ParsedDays == [never |-> [finite |-> FALSE, n |-> 0]] @@
              ("0" :> [finite |-> TRUE, n |-> 0]) @@
              ("3" :> [finite |-> TRUE, n |-> 3]) @@
              ("7" :> [finite |-> TRUE, n |-> 7])

\* normalizeDays(value)
normalizeDays(value) ==
    IF value = "never" THEN 0
    ELSE LET n == ParsedDays[value]
         IN  IF n.finite /\ n.n > 0 THEN n.n ELSE 0

\* Date.now() - days * 24 * 60 * 60 * 1000
Cutoff(days) == Now - days * DayMs

\* Number(v) of the ts of a parsed task_metadata.json
ToNumber(v) ==
    CASE v.type = "number" -> [finite |-> TRUE, n |-> v.n]
      [] v.type = "null" -> [finite |-> TRUE, n |-> 0]
      [] OTHER -> [finite |-> FALSE, n |-> 0]

NoTs == [valid |-> FALSE, n |-> 0]

\* The ts read from task_metadata.json; none when the file is missing, is
\* not JSON, or holds no finite ts.
ReadTs(dir) ==
    IF dir.metadata.kind # "json" THEN NoTs
    ELSE LET maybeTs == ToNumber(dir.metadata.ts)
         IN  IF maybeTs.finite THEN [valid |-> TRUE, n |-> maybeTs.n] ELSE NoTs

\* hasCheckpointsDir && nonCheckpointVisible.length === 0 && !hasMetadataFile
IsCheckpointOrphan(dir) ==
    /\ "checkpoints" \in dir.children
    /\ dir.children \ {"checkpoints"} = {}
    /\ "task_metadata.json" \notin dir.children

\* A decision that takes every directory without a valid ts for an old one.
shouldDelete_UndatedIsOld(dir, cutoff) ==
    \/ IsCheckpointOrphan(dir)
    \/ ~ReadTs(dir).valid
    \/ ReadTs(dir).n < cutoff

\* shouldDelete at the end of the decisions of one loop iteration
shouldDelete(dir, cutoff) ==
    LET ts == ReadTs(dir)
        orphan == IsCheckpointOrphan(dir)
    IN  IF ~orphan /\ ts.valid /\ ts.n < cutoff
        THEN TRUE
        ELSE IF ~orphan
             THEN dir.mtimeMs < cutoff
             ELSE orphan

FsCall(op, id, name) == [op |-> op, task |-> id, name |-> name]

ChildOrder == <<"checkpoints", "task_metadata.json", "ui_messages.json">>

\* One pass of removeDirAggressive on a directory that stays.
RECURSIVE ChildCalls(_, _, _)
ChildCalls(id, dir, names) ==
    IF names = <<>> THEN <<>>
    ELSE (IF names[1] \in dir.children
          THEN <<FsCall(IF names[1] = "checkpoints" THEN "rm" ELSE "unlink", id, names[1])>>
          ELSE <<>>)
         \o ChildCalls(id, dir, Tail(names))

AggressivePass(id, dir) ==
    <<FsCall("rm", id, "."), FsCall("rm", id, "checkpoints")>>
    \o ChildCalls(id, dir, ChildOrder)
    \o <<FsCall("rm", id, ".")>>

RECURSIVE removeDirAggressive(_, _, _)
removeDirAggressive(id, dir, attempt) ==
    IF attempt > AggressivePasses THEN <<>>
    ELSE AggressivePass(id, dir) \o removeDirAggressive(id, dir, attempt + 1)

\* The deletion calls for one directory: the provider callback or fs.rm,
\* then the aggressive cleanup when the directory is still there.
DeletionCalls(id, dir, viaProvider) ==
    <<FsCall(IF viaProvider THEN "deleteTaskById" ELSE "rm", id, ".")>>
    \o (IF dir.removable THEN <<>> ELSE removeDirAggressive(id, dir, 1))

\* The loop over taskDirs: the calls made, the directories left and results.
RECURSIVE PurgeLoop(_, _, _, _, _)
PurgeLoop(ids, dirs, cutoff, dryRun, viaProvider) ==
    IF ids = <<>> THEN [calls |-> <<>>, dirs |-> dirs, results |-> <<>>]
    ELSE LET id == ids[1]
             dir == dirs[id]
             rest(d) == PurgeLoop(Tail(ids), d, cutoff, dryRun, viaProvider)
             with(r, made, counted) ==
                 [r EXCEPT !.calls = made \o @, !.results = <<counted>> \o @]
         IN  IF ~dir.present THEN rest(dirs)
             ELSE IF ~shouldDelete(dir, cutoff) THEN with(rest(dirs), <<>>, 0)
             ELSE IF dryRun THEN with(rest(dirs), <<>>, 1)
             ELSE IF dir.removable
                  THEN with(rest([dirs EXCEPT ![id] = Gone]),
                            DeletionCalls(id, dir, viaProvider), 1)
                  ELSE with(rest(dirs), DeletionCalls(id, dir, viaProvider), 0)

RECURSIVE Sum(_)
Sum(results) == IF results = <<>> THEN 0 ELSE results[1] + Sum(Tail(results))

NoPurge == [called |-> FALSE]

\* purgeOldTasks(retention, globalStoragePath, log, dryRun, deleteTaskById).
\* readable tells whether <base>/tasks can be listed.
purgeOldTasks(retention, dryRun, viaProvider, readable) ==
    LET days == normalizeDays(retention)
        cutoff == Cutoff(days)
        loop == PurgeLoop(TaskIds, tasks, cutoff, dryRun, viaProvider)
        args == [called |-> TRUE, retention |-> retention, dryRun |-> dryRun,
                 viaProvider |-> viaProvider, readable |-> readable, before |-> tasks]
    IN  /\ ~purge.called
        /\ IF days = 0
           THEN /\ purge' = args @@ [calls |-> <<>>, purgedCount |-> 0,
                                     cutoff |-> [null |-> TRUE, n |-> 0]]
                /\ tasks' = tasks
           ELSE IF ~readable
           THEN /\ purge' = args @@ [calls |-> <<>>, purgedCount |-> 0,
                                     cutoff |-> [null |-> FALSE, n |-> cutoff]]
                /\ tasks' = tasks
           ELSE /\ purge' = args @@ [calls |-> loop.calls, purgedCount |-> Sum(loop.results),
                                     cutoff |-> [null |-> FALSE, n |-> cutoff]]
                /\ tasks' = loop.dirs
        /\ UNCHANGED <<oiVars, readVars, orchVars, fnVars, htbVars, storeVars, migVars, laterVars>>

QuietPurge ==
    /\ tasks = [id \in {} |-> Gone]
    /\ purge = NoPurge

\* The ts values a task_metadata.json may hold, around the cutoff of 7 days.
StoredTs ==
    { [type |-> "undefined", n |-> 0], [type |-> "null", n |-> 0] }
    \cup { [type |-> "number", n |-> n] : n \in {Now - 8 * DayMs, Now - 7 * DayMs, Now - DayMs} }

\* The task directories a purge may find.
TaskDirs ==
    { [present |-> TRUE, metadata |-> metadata, children |-> children,
       mtimeMs |-> mtimeMs, removable |-> removable] :
        metadata \in {[kind |-> "missing", ts |-> [type |-> "undefined", n |-> 0]]},
        children \in {{"checkpoints"}, {"ui_messages.json"}},
        mtimeMs \in {Now - 8 * DayMs, Now - DayMs},
        removable \in BOOLEAN }
    \cup
    { [present |-> TRUE, metadata |-> metadata, children |-> children,
       mtimeMs |-> mtimeMs, removable |-> removable] :
        metadata \in {[kind |-> "invalid", ts |-> [type |-> "undefined", n |-> 0]]}
                     \cup { [kind |-> "json", ts |-> ts] : ts \in StoredTs },
        children \in {{"task_metadata.json", "ui_messages.json"}},
        mtimeMs \in {Now - 8 * DayMs, Now - DayMs},
        removable \in BOOLEAN }

----------------------------------------------------------------------------
(* OutputInterceptor.cleanup and cleanupByIds *)

\* The entries a command-output directory may hold, in the order readdir
\* lists them.
EntryOrder ==
    << <<"c", "m", "d", "-", "1", ".", "t", "x", "t">>,
       <<"c", "m", "d", "-", "1", "2", ".", "t", "x", "t">>,
       <<"c", "m", "d", "-", "a", ".", "t", "x", "t">>,
       <<"c", "m", "d", "-", "1", ".", "t", "x", "t", ".", "b", "a", "k">>,
       <<"c", "m", "d", "-", "n", ".", "m", "d">>,
       <<"o", "t", "h", "e", "r", ".", "t", "x", "t">> >>

EntryNames == { EntryOrder[n] : n \in 1..Len(EntryOrder) }

\* The sets of execution ids to preserve.
KeepIdSets == { {}, {<<"1">>}, {<<"1", "2">>}, {<<"1">>, <<"1", "2">>}, {<<"2">>} }

\* file.startsWith("cmd-")
StartsWithCmd(file) ==
    /\ Len(file) >= 4
    /\ SubSeq(file, 1, 4) = <<"c", "m", "d", "-">>

NoMatch == [matched |-> FALSE, id |-> <<>>]

\* file.match(/^cmd-(\d+)\.txt$/): the match and its first group
MatchArtifactFile(file) ==
    LET n == Len(file)
    IN  IF /\ n >= 9
           /\ SubSeq(file, 1, 4) = <<"c", "m", "d", "-">>
           /\ SubSeq(file, n - 3, n) = <<".", "t", "x", "t">>
           /\ \A k \in 5..(n - 4) : file[k] \in Digits
        THEN [matched |-> TRUE, id |-> SubSeq(file, 5, n - 4)]
        ELSE NoMatch

\* The test of cleanup's loop.
CleanupSelects(file) == StartsWithCmd(file)

\* A test that ignores the set of ids to preserve.
CleanupByIdsSelects_All(file, executionIds) == MatchArtifactFile(file).matched

\* match && !executionIds.has(match[1])
CleanupByIdsSelects(file, executionIds) ==
    /\ MatchArtifactFile(file).matched
    /\ MatchArtifactFile(file).id \notin executionIds

\* fs.promises.unlink(path): rejects for the entry the file system holds.
Unlink(file, failing) == IF file = failing THEN "rejected" ELSE "fulfilled"

\* .catch(() => {}): a rejected unlink is fulfilled all the same
CatchUnlink(outcome) == "fulfilled"

\* for (const file of files): the unlink calls, the entries removed, and
\* whether a rejection left the loop.
RECURSIVE UnlinkLoop(_, _, _)
UnlinkLoop(names, selected, failing) ==
    IF names = <<>> THEN [unlinks |-> <<>>, removed |-> {}, rejected |-> FALSE]
    ELSE IF names[1] \notin selected THEN UnlinkLoop(Tail(names), selected, failing)
    ELSE LET outcome == Unlink(names[1], failing)
             gone == IF outcome = "fulfilled" THEN {names[1]} ELSE {}
         IN  IF CatchUnlink(outcome) = "rejected"
             THEN [unlinks |-> <<names[1]>>, removed |-> {}, rejected |-> TRUE]
             ELSE LET rest == UnlinkLoop(Tail(names), selected, failing)
                  IN  [rest EXCEPT !.unlinks = <<names[1]>> \o @, !.removed = gone \cup @]

\* fs.promises.readdir(storageDir): the entries present, in order
Readdir(dir) == SelectSeq(EntryOrder, LAMBDA name : name \in dir.entries)

NotCleaned == [called |-> FALSE]

\* The body shared by cleanup and cleanupByIds: readdir, the loop, and the
\* try/catch around both, which turns every rejection into a normal return.
CleanupCall(kind, executionIds, selected, failing) ==
    LET loop == UnlinkLoop(Readdir(cmdDir), selected, failing)
        log == [called |-> TRUE, kind |-> kind, executionIds |-> executionIds,
                failing |-> failing, before |-> cmdDir]
    IN  /\ ~cleaned.called
        /\ IF ~cmdDir.exists
           THEN /\ cleaned' = log @@ [unlinks |-> <<>>, caught |-> TRUE, threw |-> FALSE]
                /\ cmdDir' = cmdDir
           ELSE /\ cleaned' = log @@ [unlinks |-> loop.unlinks, caught |-> loop.rejected,
                                      threw |-> FALSE]
                /\ cmdDir' = [cmdDir EXCEPT !.entries = @ \ loop.removed]
        /\ UNCHANGED <<oiVars, readVars, orchVars, fnVars, htbVars, storeVars, migVars, purgeVars, foldVars, defVars>>

\* OutputInterceptor.cleanup(storageDir)
cleanup(failing) ==
    CleanupCall("cleanup", {},
                { name \in cmdDir.entries : CleanupSelects(name) }, failing)

\* OutputInterceptor.cleanupByIds(storageDir, executionIds)
cleanupByIds(executionIds, failing) ==
    CleanupCall("cleanupByIds", executionIds,
                { name \in cmdDir.entries : CleanupByIdsSelects(name, executionIds) }, failing)

QuietClean ==
    /\ cmdDir = [exists |-> FALSE, entries |-> {}]
    /\ cleaned = NotCleaned

----------------------------------------------------------------------------
(* generateFoldedFileContext *)

RECURSIVE Repeat(_, _)
Repeat(text, n) == IF n = 0 THEN "" ELSE text \o Repeat(text, n - 1)

\* One line of folded definitions, 20 characters long.
DefinitionLine == "1--5 | function f()\n"

\* What parseSourceCodeDefinitionsForFile gives for a file: definitions of
\* 20 to 600 characters, nothing, or an exception.
ParseOutcomes ==
    { [kind |-> "definitions", text |-> Repeat(DefinitionLine, n)] : n \in {1, 5, 12, 30} }
    \cup { [kind |-> "none", text |-> ""], [kind |-> "throws", text |-> ""] }

FilePaths == {"a.ts", "src/core/condense/foldedFileContext.ts"}

ReadFiles == { [filePath |-> filePath, parsed |-> parsed] :
                  filePath \in FilePaths, parsed \in ParseOutcomes }

\* options.maxCharacters; 50000 when not given
MaxCharacterOptions == {158, 300, 400, 50000}

\* `<system-reminder>\n## File Context: ${filePath}\n${definitions}\n</system-reminder>`
SectionContent(filePath, definitions) ==
    "<system-reminder>\n## File Context: " \o filePath \o "\n" \o definitions
        \o "\n</system-reminder>"

\* text.substring(0, end)
Substring(text, end) ==
    IF end <= 0 THEN "" ELSE SubSeq(text, 1, IF end < Len(text) THEN end ELSE Len(text))

\* definitions.substring(0, remainingChars - 100) + "\n... (truncated)"
TruncatedDefinitions(definitions, remainingChars) ==
    Substring(definitions, remainingChars - 100) \o "\n... (truncated)"

\* foldedSections.join("\n")
RECURSIVE Join(_)
Join(sections) ==
    IF sections = <<>> THEN ""
    ELSE IF Len(sections) = 1 THEN sections[1]
    ELSE sections[1] \o "\n" \o Join(Tail(sections))

\* The loop over filePaths from file n on.
RECURSIVE FoldLoop(_, _, _, _)
FoldLoop(fileList, n, maxCharacters, acc) ==
    IF n > Len(fileList) THEN acc
    ELSE LET file == fileList[n]
             skipped == [acc EXCEPT !.filesSkipped = @ + 1]
             sectionContent == SectionContent(file.filePath, file.parsed.text)
             remainingChars == maxCharacters - acc.currentCharCount
             truncatedContent ==
                 SectionContent(file.filePath,
                                TruncatedDefinitions(file.parsed.text, remainingChars))
         IN  IF file.parsed.kind # "definitions"
             THEN FoldLoop(fileList, n + 1, maxCharacters, skipped)
             ELSE IF acc.currentCharCount + Len(sectionContent) > maxCharacters
             THEN IF remainingChars < 200
                  THEN FoldLoop(fileList, n + 1, maxCharacters, skipped)
                  ELSE [acc EXCEPT !.foldedSections = Append(@, truncatedContent),
                                   !.currentCharCount = @ + Len(truncatedContent),
                                   !.filesProcessed = @ + 1,
                                   !.filesSkipped =
                                       @ + (Len(fileList) - (acc.filesProcessed + 1) - @)]
             ELSE FoldLoop(fileList, n + 1, maxCharacters,
                           [acc EXCEPT !.foldedSections = Append(@, sectionContent),
                                       !.currentCharCount = @ + Len(sectionContent),
                                       !.filesProcessed = @ + 1])

NotFolded == [called |-> FALSE]

\* generateFoldedFileContext(filePaths, options)
generateFoldedFileContext(maxCharacters) ==
    LET loop == FoldLoop(foldFiles, 1, maxCharacters,
                         [foldedSections |-> <<>>, currentCharCount |-> 0,
                          filesProcessed |-> 0, filesSkipped |-> 0])
        content == Join(loop.foldedSections)
    IN  /\ ~folded.called
        /\ folded' = [called |-> TRUE, maxCharacters |-> maxCharacters,
                      content |-> content,
                      sections |-> loop.foldedSections,
                      filesProcessed |-> loop.filesProcessed,
                      filesSkipped |-> loop.filesSkipped,
                      characterCount |-> Len(content)]
        /\ UNCHANGED foldFiles
        /\ UNCHANGED <<oiVars, readVars, orchVars, fnVars, htbVars, storeVars, migVars, purgeVars, cleanVars, defVars>>

QuietFold ==
    /\ foldFiles = <<>>
    /\ folded = NotFolded

QuietLater == QuietClean /\ QuietFold /\ QuietDefaults

----------------------------------------------------------------------------
(* Specifications *)

\* The parts a specification leaves alone stay in one fixed state.
QuietOI ==
    /\ oi = [i \in Inst |-> Unconstructed]
    /\ oiLog = [i \in Inst |-> EmptyLog]
    /\ files = [p \in Paths |-> NoFile]
    /\ dirExists = FALSE

QuietRead ==
    /\ artifacts = [p \in ReadablePaths |-> Missing]
    /\ task = [consecutiveMistakeCount |-> 0, toolErrors |-> 0, didToolFailInCurrentTurn |-> FALSE]
    /\ call = NoCall

QuietCalls ==
    /\ pc = "idle"
    /\ req = NoReq
    /\ appr = NoAppr
    /\ cache = {}
    /\ sandbox = "None"
    /\ spawned = <<>>
    /\ outputs = <<>>
    /\ result = [kind |-> "none"]
    /\ ncalls = 0
    /\ answers = <<>>

QuietOrch ==
    /\ QuietCalls
    /\ platform = "None"

QuietExtButPurge ==
    /\ QuietFn
    /\ QuietHtb
    /\ QuietStore
    /\ QuietMig
    /\ QuietLater

QuietExt ==
    /\ QuietFn
    /\ QuietHtb
    /\ QuietStore
    /\ QuietMig
    /\ QuietPurge
    /\ QuietLater

Init == InitOI /\ QuietRead /\ QuietOrch /\ QuietExt

\* One command execution writing through its interceptor.
Next ==
    \/ \E size \in PreviewSizes, compress \in BOOLEAN :
          Construct(1, <<"1">>, size, compress)
    \/ \E chunk \in Chunks : Write(1, chunk)
    \/ Finalize(1)

Spec == Init /\ [][Next]_vars

\* Two command executions of one task, interleaved.
SharedChunks == { <<"a", "b">>, <<"C3", "a">> }

NextShared ==
    \/ \E i \in Inst, id \in ExecutionIds : Construct(i, id, "small", FALSE)
    \/ \E i \in Inst, chunk \in SharedChunks :
          oiLog[i].ops < MaxSharedOps /\ Write(i, chunk)
    \/ \E i \in Inst : oiLog[i].ops < MaxSharedOps /\ Finalize(i)

SpecShared == Init /\ [][NextShared]_vars

InitReadSpec == QuietOI /\ InitRead /\ QuietOrch /\ QuietExt

NextRead ==
    \E params \in ParamInputs, storage \in BOOLEAN, ioFails \in BOOLEAN :
       Execute(params, storage, ioFails)

SpecRead == InitReadSpec /\ [][NextRead]_vars

InitOrchSpec == QuietOI /\ QuietRead /\ InitOrch /\ QuietExt

NextOrch ==
    \/ \E command \in Commands, policy \in ApprovalPolicies,
          sandbox_policy \in SandboxPolicies, escalate \in BOOLEAN :
          BeginCall(command, policy, sandbox_policy, escalate)
    \/ \E decision \in ReviewDecisions : ApprovalDecided(decision)
    \/ \E exit_code \in ExitCodes, text \in OutputTexts : ChildExits(exit_code, text)
    \/ TimeoutExpires
    \/ \E decision \in ReviewDecisions : RetryDecided(decision)

SpecOrch == InitOrchSpec /\ [][NextOrch]_vars

\* The timer of execute_with_timeout fires once the timeout has elapsed.
FairOrch == SpecOrch /\ WF_vars(TimeoutExpires)

\* One session of tool calls that need approval: the same command, the same
\* command written with a trailing blank, and another command.
SessionCommands == {"rm", "rm ", "ls"}

InitCacheSpec == QuietOI /\ QuietRead /\ QuietOrch /\ QuietExt

NextCache ==
    \/ \E command \in SessionCommands, policy \in {"OnRequest", "UnlessTrusted"} :
          BeginCall(command, policy, "WorkspaceWrite", FALSE)
    \/ \E decision \in ReviewDecisions : ApprovalDecided(decision)
    \/ \E exit_code \in ExitCodes : ChildExits(exit_code, <<"ok">>)
    \/ TimeoutExpires

SpecCache == InitCacheSpec /\ [][NextCache]_vars

\* The output of one interactive session pushed chunk by chunk.
InitHtbSpec == QuietOI /\ QuietRead /\ QuietOrch /\ QuietExt

\* A session store that already holds InitialSessions running sessions,
\* opened one after the other.
InitStoreSpec ==
    /\ QuietOI /\ QuietRead /\ QuietOrch /\ QuietFn /\ QuietHtb
    /\ store = [k \in 1..InitialSessions |-> [id |-> k, exited |-> FALSE]]
    /\ storeNext = InitialSessions + 1
    /\ storeUses = 0
    /\ storeLast = NoOpen
    /\ QuietMig
    /\ QuietPurge
    /\ QuietLater

NextStore ==
    \/ OpenSession
    \/ \E id \in WatchedIds : UseSession(id)
    \/ \E id \in WatchedIds : SessionExits(id)

SpecStore == InitStoreSpec /\ [][NextStore]_vars

\* runSettingsMigrations called at activation, on whatever is stored.
InitMigSpec ==
    /\ QuietOI /\ QuietRead /\ QuietOrch /\ QuietFn /\ QuietHtb /\ QuietStore
    /\ settings \in StoredSettings
    /\ migLog = <<>>
    /\ QuietPurge
    /\ QuietLater

NextMig == \E throws \in BOOLEAN, done \in 0..4 : RunSettingsMigrations(throws, done)

SpecMig == InitMigSpec /\ [][NextMig]_vars

\* purgeOldTasks called once on the task directories it finds.
InitPurgeSpec ==
    /\ QuietOI /\ QuietRead /\ QuietOrch /\ QuietExtButPurge
    /\ tasks \in [{"task-a", "task-b"} -> TaskDirs]
    /\ purge = NoPurge

NextPurge ==
    \E retention \in RetentionSettings, dryRun \in BOOLEAN, viaProvider \in BOOLEAN,
       readable \in BOOLEAN :
        purgeOldTasks(retention, dryRun, viaProvider, readable)

SpecPurge == InitPurgeSpec /\ [][NextPurge]_vars

\* cleanup or cleanupByIds called once on a directory, present or not.
InitCleanSpec ==
    /\ QuietOI /\ QuietRead /\ QuietOrch
    /\ QuietFn /\ QuietHtb /\ QuietStore /\ QuietMig /\ QuietPurge
    /\ cmdDir \in { [exists |-> FALSE, entries |-> {}] }
                    \cup { [exists |-> TRUE, entries |-> e] : e \in SUBSET EntryNames }
    /\ cleaned = NotCleaned
    /\ QuietFold /\ QuietDefaults

NextClean ==
    \/ \E failing \in EntryNames \cup {<<>>} : cleanup(failing)
    \/ \E executionIds \in KeepIdSets, failing \in EntryNames \cup {<<>>} :
          cleanupByIds(executionIds, failing)

SpecClean == InitCleanSpec /\ [][NextClean]_vars

\* generateFoldedFileContext called once on up to two files.
InitFoldSpec ==
    /\ QuietOI /\ QuietRead /\ QuietOrch
    /\ QuietFn /\ QuietHtb /\ QuietStore /\ QuietMig /\ QuietPurge /\ QuietClean
    /\ foldFiles \in {<<>>} \cup { <<f>> : f \in ReadFiles }
                     \cup { <<f, g>> : f \in ReadFiles, g \in ReadFiles }
    /\ folded = NotFolded
    /\ QuietDefaults

NextFold == \E maxCharacters \in MaxCharacterOptions : generateFoldedFileContext(maxCharacters)

SpecFold == InitFoldSpec /\ [][NextFold]_vars

\* One setting, stored or not, read around migration 1.
InitDefaultsSpec ==
    /\ QuietOI /\ QuietRead /\ QuietOrch
    /\ QuietExt

NextDefaults ==
    \E key \in DefaultedKeys : \E stored \in StoredValuesOf(key) :
        ReadAroundMigration(key, stored)

SpecDefaults == InitDefaultsSpec /\ [][NextDefaults]_vars

NextHtb == \E len \in 1..MaxChunkLen : PushChunk(len)

SpecHtb == InitHtbSpec /\ [][NextHtb]_vars

\* The helpers of the sandbox manager and of the shell runtime, called with
\* any arguments on any host.
InitFn ==
    /\ QuietOI /\ QuietRead /\ QuietCalls
    /\ host \in Hosts
    /\ platform = get_platform_sandbox(host.os, host.available)
    /\ fn = NoFn
    /\ QuietHtb
    /\ QuietStore
    /\ QuietMig
    /\ QuietPurge
    /\ QuietLater

NextFn ==
    \/ \E mode \in FirstAttemptModes, policy \in SandboxPolicies :
          SelectSandbox(mode, policy)
    \/ \E shell \in Shells, command \in CommandTexts, login \in BOOLEAN :
          DeriveExecArgs(shell, command, login)

SpecFn == InitFn /\ [][NextFn]_vars

----------------------------------------------------------------------------
(* Properties *)

RECURSIVE Flatten(_)
Flatten(ss) == IF ss = <<>> THEN <<>> ELSE ss[1] \o Flatten(Tail(ss))

PasswdPath == <<".", ".", "/", ".", ".", "/", "e", "t", "c", "/", "p", "a", "s", "s", "w", "d">>

\* C1: a call of execute whose artifact_id is not of the form cmd-<digits>.txt
\* (absent, malformed, or a path-traversal string) pushes one error result
\* and makes no filesystem call (no access, stat, open or readFile).
C1_InvalidIdNoFsAccess ==
    (call.count > 0 /\ call.params.artifact_id \notin WellFormedIds)
        => /\ Len(call.pushed) = 1
           /\ call.pushed[1].kind = "error"
           /\ call.fs = <<>>

C1_Witness ==
    /\ call.count > 0
    /\ call.params.artifact_id = PasswdPath
    /\ artifacts[PasswdPath] # Missing
    /\ call.pushed = <<ErrorResult("invalid_artifact_id")>>

\* C2: the result of finalize has truncated = false and artifactPath = null
\* when the bytes written are at most the preview threshold (equal included),
\* truncated = true and an artifactPath when they exceed it; truncated and
\* artifactPath # null always agree. totalBytes is the UTF-8 length of all
\* that was written.
C2_TruncatedIffOverThreshold ==
    \A i \in Inst :
        /\ oi[i].totalBytes = Utf8Len(oiLog[i].written)
        /\ oiLog[i].result.set =>
             LET r == oiLog[i].result
             IN  /\ r.totalBytes <= oi[i].previewBytes => (~r.truncated /\ r.artifactPath = <<>>)
                 /\ r.totalBytes > oi[i].previewBytes => (r.truncated /\ r.artifactPath # <<>>)
                 /\ r.truncated <=> (r.artifactPath # <<>>)

C2_Witness ==
    /\ oiLog[1].result.set
    /\ oiLog[1].result.totalBytes = oi[1].previewBytes
    /\ ~oiLog[1].result.truncated
    /\ oiLog[1].result.artifactPath = <<>>

\* C3 (as claimed): once the output has spilled, the buffer (getBufferForUI)
\* and the preview returned by finalize have a UTF-8 length of at most the
\* preview threshold.
C3_PreviewWithinThreshold ==
    \A i \in Inst :
        oi[i].spilledToDisk =>
            /\ Utf8Len(oi[i].buffer) <= oi[i].previewBytes
            /\ (oiLog[i].result.set /\ oiLog[i].result.truncated)
                  => Utf8Len(oiLog[i].result.preview) <= oi[i].previewBytes

\* C4: the spill happens once and is never undone: the artifact stream is
\* created at most once, and from a spilled state every step keeps the
\* interceptor spilled, leaves the buffer as it is, creates no stream, and a
\* write hands exactly its chunk to the stream.
C4_SpillIsOneWay ==
    /\ [](\A i \in Inst : oiLog[i].created <= 1)
    /\ [][\A i \in Inst :
            oi[i].spilledToDisk =>
                /\ oi'[i].spilledToDisk
                /\ oi'[i].buffer = oi[i].buffer
                /\ oiLog'[i].created = oiLog[i].created
                /\ oiLog'[i].written # oiLog[i].written =>
                     oiLog'[i].streamWrites =
                        Append(oiLog[i].streamWrites,
                               SubSeq(oiLog'[i].written, Len(oiLog[i].written) + 1,
                                      Len(oiLog'[i].written)))]_vars

C4_Witness ==
    /\ oi[1].spilledToDisk
    /\ Len(oiLog[1].streamWrites) >= 3

\* C5: once spilled, the data handed to the artifact stream, in call order,
\* is the concatenation of every chunk written so far, with compression of
\* the preview on or off.
C5_ArtifactGetsEveryChunk ==
    \A i \in Inst :
        oi[i].spilledToDisk => Flatten(oiLog[i].streamWrites) = oiLog[i].written

C5_Witness ==
    /\ oi[1].spilledToDisk
    /\ oi[1].compressProgressBar
    /\ Len(oiLog[1].streamWrites) >= 2
    /\ Len(oiLog[1].written) > oi[1].previewBytes + 2

C7_RejectedNeverSpawns ==
    (\/ appr.requirement = "Forbidden"
     \/ (appr.requirement = "NeedsApproval" /\ appr.decision \in {"Denied", "Abort"}))
        => /\ pc = "rejected"
           /\ result.kind = "Rejected"
           /\ spawned = <<>>
           /\ outputs = <<>>
           /\ appr.retryPrompts = 0

C7_Witness ==
    /\ appr.requirement = "NeedsApproval"
    /\ appr.decision = "Abort"
    /\ pc = "rejected"

DenialTexts ==
    { <<"rm: Permission denied">>, <<"OPERATION NOT PERMITTED">>, <<"Read-only file system">> }

\* C8: one tool call spawns at most two processes and prompts for a retry at
\* most once; the second process runs with sandbox None, and its output is
\* what the call returns, denial-looking or not.
C8_AtMostOneRetry ==
    /\ Len(spawned) <= 2
    /\ appr.retryPrompts <= 1
    /\ Len(spawned) = 2 => spawned[2].sandbox = "None"
    /\ (Len(outputs) = 2) => (pc = "done" /\ result.output = outputs[2])

C8_Witness ==
    /\ pc = "done"
    /\ Len(outputs) = 2
    /\ outputs[2].exit_code # 0
    /\ outputs[2].text \in DenialTexts

\* C9: a second process is spawned only if the first attempt ended with a
\* nonzero exit code, ran under a sandbox other than None and printed a
\* denial keyword, the runtime escalates on failure, the approval policy is
\* not Never and the human approved the retry; a call that ends after one
\* attempt returns that attempt's output.
C9_RetryOnlyWhenAllHold ==
    /\ Len(spawned) >= 2 =>
          /\ outputs[1].exit_code # 0
          /\ spawned[1].sandbox # "None"
          /\ outputs[1].text \in DenialTexts
          /\ req.escalate_on_failure
          /\ req.approval_policy # "Never"
          /\ appr.retryDecision = "Approved"
    /\ (pc = "done" /\ Len(spawned) = 1) => result.output = outputs[1]

C9_Witness ==
    /\ pc = "executing"
    /\ Len(spawned) = 2
    /\ req.approval_policy = "OnFailure"

NativeSandbox == [macos |-> "MacosSeatbelt", linux |-> "LinuxSeccomp", windows |-> "WindowsRestricted"]

\* C11: sandbox selection gives None for DangerFullAccess and
\* ExternalSandbox under either per-call override; for ReadOnly and
\* WorkspaceWrite it gives the sandbox of the host's own operating system or
\* None, never the sandbox of another one: without an override, the host's
\* sandbox when it is usable and None when it is not.
C11_SelectSandbox ==
    fn.op = "select_sandbox" =>
        /\ fn.policy \in {"DangerFullAccess", "ExternalSandbox"} => fn.result = "None"
        /\ fn.policy \in {"ReadOnly", "WorkspaceWrite"} =>
              /\ fn.result \in {"None", NativeSandbox[host.os]}
              /\ fn.mode = "NoOverride" =>
                    fn.result = (IF host.available THEN NativeSandbox[host.os] ELSE "None")

C11_Witness ==
    /\ fn.op = "select_sandbox"
    /\ fn.policy = "ExternalSandbox"
    /\ fn.mode = "NoOverride"
    /\ host = [os |-> "macos", available |-> TRUE]
    /\ fn.result = "None"

\* C12: for every shell and both values of login, the argv derived from a
\* freeform command starts with the shell path and ends with the command
\* text; between them Bash, Zsh and Sh get "-lc" when login and "-c"
\* otherwise, PowerShell gets "-Command", preceded by "-NoProfile" exactly
\* when not login, and Cmd gets "/c".
C12_DeriveExecArgs ==
    fn.op = "derive_exec_args" =>
        LET argv == fn.result
            flags == SubSeq(argv, 2, Len(argv) - 1)
        IN  /\ Len(argv) >= 3
            /\ argv[1] = fn.shell.path
            /\ argv[Len(argv)] = fn.command
            /\ fn.shell.type \in {"Bash", "Zsh", "Sh"} =>
                  flags = (IF fn.login THEN <<"-lc">> ELSE <<"-c">>)
            /\ fn.shell.type = "PowerShell" =>
                  flags = (IF fn.login THEN <<"-Command">> ELSE <<"-NoProfile", "-Command">>)
            /\ fn.shell.type = "Cmd" => flags = <<"/c">>

C12_Witness ==
    /\ fn.op = "derive_exec_args"
    /\ fn.shell.type = "PowerShell"
    /\ ~fn.login
    /\ fn.command = "-NoProfile"
    /\ fn.result = <<fn.shell.path, "-NoProfile", "-Command", "-NoProfile">>

\* A tool call begins and its command needs approval under its policy.
C13_CheckBegins == ncalls' = ncalls + 1 /\ appr'.requirement = "NeedsApproval"

\* The human has answered ApprovedForSession to a prompt for a command that
\* stands in relation Same(_, _) to the given one.
C13_ApprovedBefore(command, Same(_, _)) ==
    \E k \in 1..Len(answers) :
        /\ answers[k].decision = "ApprovedForSession"
        /\ Same(answers[k].command, command)

C13_SameFingerprint(c, d) == c = d \/ {c, d} = {"rm", "rm "}

C13_SameText(c, d) == c = d

C14_HeadTailBuffer ==
    LET output == Concat(htbPushed)
        kept == Concat(snapshot_chunks(htb))
    IN  /\ Len(kept) <= MAX_BYTES
        /\ Len(output) <= MAX_BYTES => snapshot_chunks(htb) = htbPushed
        /\ Len(output) > MAX_BYTES =>
              \E h \in 1..(Len(kept) - 1) :
                  kept = SubSeq(output, 1, h)
                         \o SubSeq(output, Len(output) - (Len(kept) - h) + 1, Len(output))

C14_Witness ==
    /\ Len(htbPushed) >= 3
    /\ Len(Concat(htbPushed)) > MAX_BYTES + 2
    /\ Concat(snapshot_chunks(htb)) # Concat(htbPushed)
    /\ Len(Concat(snapshot_chunks(htb))) = MAX_BYTES

\* C15: the session store never holds more than 64 sessions; an open at
\* capacity removes exactly one session, outside the 8 most recently used:
\* an exited one when there is one there, else the least recently used one;
\* its handle is closed before its entry is removed, and the new session is
\* in the store afterwards.
C15_StoreEviction ==
    /\ Len(store) <= 64
    /\ storeLast.opened # 0 =>
          LET before == storeLast.before
              outside == 1..(Len(before) - 8)
              gone == { k \in 1..Len(before) :
                          \A j \in 1..Len(store) : store[j].id # before[k].id }
          IN  /\ \E j \in 1..Len(store) : store[j].id = storeLast.opened
              /\ Len(before) < 64 => storeLast.events = << <<"insert", storeLast.opened>> >>
              /\ Len(before) = 64 =>
                    \E k \in outside :
                        /\ storeLast.events = << <<"close_handle", before[k].id>>,
                                                 <<"remove", before[k].id>>,
                                                 <<"insert", storeLast.opened>> >>
                        /\ (\E j \in outside : before[j].exited) => before[k].exited
                        /\ (\A j \in outside : ~before[j].exited) => k = 1

C15_Witness ==
    /\ Len(storeLast.before) = 64
    /\ \A j \in 1..56 : ~storeLast.before[j].exited
    /\ \E j \in 57..64 : storeLast.before[j].exited
    /\ storeLast.events[2] = <<"remove", storeLast.before[1].id>>
    /\ storeLast.before[1].id = 2
    /\ Len(store) = 64

----------------------------------------------------------------------------
(* Settings migrations: claims *)

VersionOf(st) == st["settingsMigrationVersion"]

\* The updates of a call made by its migrations, the version write left out.
MigrationPart(run) == SelectSeq(run.updates, LAMBDA u : u.key # "settingsMigrationVersion")

VersionWrites(run) == SelectSeq(run.updates, LAMBDA u : u.key = "settingsMigrationVersion")

\* C16: a call of runSettingsMigrations that finds a stored version at or
\* above CURRENT_MIGRATION_VERSION makes no state update at all. A call that
\* finds a lower version, none counting as 0, and runs to its end applies the
\* migrations above that version up to the current one in ascending order,
\* each once, and leaves the current version stored, so that the call after
\* it makes no update.
C16_VersionGated ==
    \A i \in 1..Len(migLog) :
        LET run == migLog[i]
            found == VersionOf(run.before)
            below == \/ found = Undefined
                     \/ found \in {Num("0"), Num("1")}
            part == MigrationPart(run)
        IN  /\ ~below => run.updates = <<>> /\ run.after = run.before
            /\ (below /\ ~run.threw) =>
                  /\ VersionOf(run.after) = Num("2")
                  /\ Len(VersionWrites(run)) = 1
                  /\ run.updates[Len(run.updates)].key = "settingsMigrationVersion"
                  /\ \A n \in 1..Len(part) :
                        /\ part[n].version \in {1, 2}
                        /\ found = Num("1") => part[n].version = 2
                        /\ n > 1 => part[n - 1].version <= part[n].version
                        /\ \A m \in 1..(n - 1) : part[m].key # part[n].key
                  /\ found # Num("1") /\ run.before["browserToolEnabled"] = Bool(TRUE)
                        => \E n \in 1..Len(part) : part[n].version = 1
                  /\ run.before["codebaseIndexConfig"] # Undefined
                        => \E n \in 1..Len(part) : part[n].version = 2
                  /\ i < Len(migLog) => migLog[i + 1].updates = <<>>

\* A first call from no stored version applied both migrations in order; the
\* second call found the current version and did nothing.
C16_Witness ==
    /\ Len(migLog) = 2
    /\ VersionOf(migLog[1].before) = Undefined
    /\ ~migLog[1].threw
    /\ \E n \in 2..Len(migLog[1].updates) :
          /\ migLog[1].updates[n - 1].version = 1
          /\ migLog[1].updates[n].version = 2
    /\ VersionOf(migLog[2].before) = Num("2")
    /\ migLog[2].updates = <<>>
    /\ settings = migLog[1].after

\* C17: the historical-defaults migration clears a stored setting only when
\* the stored value is exactly the historical default of that key: a value
\* that differs, be it only in type, stays, and so does every key the
\* migration does not list.
C17_ClearsOnlyExactDefaults ==
    \A i \in 1..Len(migLog) :
        LET run == migLog[i]
            cleared == { run.updates[n].key : n \in { m \in 1..Len(run.updates) :
                                                         run.updates[m].version = 1 } }
        IN  /\ \A n \in 1..Len(run.updates) :
                  run.updates[n].version = 1 => run.updates[n].value = Undefined
            /\ cleared \subseteq {"browserToolEnabled", "maxWorkspaceFiles"}
            /\ "browserToolEnabled" \in cleared
                  => run.before["browserToolEnabled"] = <<"boolean", "true">>
            /\ "maxWorkspaceFiles" \in cleared
                  => run.before["maxWorkspaceFiles"] = <<"number", "200">>
            /\ \A key \in {"browserToolEnabled", "maxWorkspaceFiles", "customInstructions"} :
                  key \notin cleared => run.after[key] = run.before[key]
            /\ (~run.threw /\ VersionOf(run.before) \in {Undefined, Num("0")}) =>
                  /\ run.before["browserToolEnabled"] = <<"boolean", "true">>
                        => "browserToolEnabled" \in cleared
                  /\ run.before["maxWorkspaceFiles"] = <<"number", "200">>
                        => "maxWorkspaceFiles" \in cleared

\* One run met a matching default, a value that only prints like the default
\* and a key that is not listed: the first is cleared, the others stay.
C17_Witness ==
    /\ Len(migLog) >= 1
    /\ ~migLog[1].threw
    /\ VersionOf(migLog[1].before) = Num("0")
    /\ migLog[1].before["browserToolEnabled"] = Bool(TRUE)
    /\ migLog[1].after["browserToolEnabled"] = Undefined
    /\ migLog[1].before["maxWorkspaceFiles"] = Str("200")
    /\ migLog[1].after["maxWorkspaceFiles"] = Str("200")
    /\ migLog[1].before["customInstructions"] = Str("200")
    /\ migLog[1].after["customInstructions"] = Str("200")

----------------------------------------------------------------------------
(* Task history retention: claims *)

\* The retention of the call in days, for the settings that purge.
RetentionDays == IF purge.retention = "7" THEN 7 ELSE 3

Purging ==
    /\ purge.called
    /\ purge.retention \in {"3", "7"}
    /\ purge.readable

\* The directory holds a task_metadata.json with a number as ts.
HasNumberTs(dir) == dir.metadata.kind = "json" /\ dir.metadata.ts.type = "number"

\* C18: purgeOldTasks with a retention of N days deletes every task
\* directory whose task_metadata.json ts is older than the cutoff, now minus
\* N days, and never one with a valid ts at or after the cutoff. A directory
\* the file system refuses to remove is not held against the first half.
C18_PurgesExactlyTheOld ==
    (Purging /\ ~purge.dryRun) =>
        \A id \in DOMAIN tasks :
            LET dir == purge.before[id]
            IN  HasNumberTs(dir) =>
                  /\ (dir.metadata.ts.n < Now - RetentionDays * DayMs /\ dir.removable)
                        => ~tasks[id].present
                  /\ dir.metadata.ts.n >= Now - RetentionDays * DayMs
                        => tasks[id].present

\* The directory has no task_metadata.json, one that is not JSON, or one
\* without a ts.
Undated(dir) ==
    \/ dir.metadata.kind \in {"missing", "invalid"}
    \/ dir.metadata.kind = "json" /\ dir.metadata.ts.type = "undefined"

NoCallOn(id) == \A n \in 1..Len(purge.calls) : purge.calls[n].task # id

MeetsCriteria(dir) ==
    LET cutoff == Now - RetentionDays * DayMs
        dated == dir.metadata.kind = "json" /\ dir.metadata.ts.type \in {"number", "null"}
    IN  \/ dir.children = {"checkpoints"}
        \/ dated /\ dir.metadata.ts.n < cutoff
        \/ ~dated /\ dir.mtimeMs < cutoff

\* C20: with dryRun true purgeOldTasks deletes nothing, making no rm, unlink
\* or deleteTaskById call, yet returns as purgedCount the number of tasks
\* meeting the purge criteria; with retention "never" it deletes nothing and
\* returns purgedCount 0 and cutoff null.
C20_DryRunAndNever ==
    /\ (purge.called /\ purge.dryRun) =>
          /\ purge.calls = <<>>
          /\ tasks = purge.before
          /\ Purging =>
                purge.purgedCount =
                    Cardinality({ id \in DOMAIN tasks : MeetsCriteria(purge.before[id]) })
    /\ (purge.called /\ purge.retention = "never") =>
          /\ purge.calls = <<>>
          /\ tasks = purge.before
          /\ purge.purgedCount = 0
          /\ purge.cutoff.null

----------------------------------------------------------------------------
(* Cleanup of artifacts: claims *)

CmdFile(id) == <<"c", "m", "d", "-">> \o id \o <<".", "t", "x", "t">>

Unlinked == { cleaned.unlinks[n] : n \in 1..Len(cleaned.unlinks) }

\* name matches the pattern cmd-*.txt
IsCmdTxt(name) ==
    /\ Len(name) >= 8
    /\ SubSeq(name, 1, 4) = <<"c", "m", "d", "-">>
    /\ SubSeq(name, Len(name) - 3, Len(name)) = <<".", "t", "x", "t">>

\* C21: OutputInterceptor.cleanup(storageDir) unlinks exactly the entries of
\* the directory whose name matches cmd-*.txt, and no other entry.
C21_CleanupUnlinksArtifactsOnly ==
    (cleaned.called /\ cleaned.kind = "cleanup") =>
        Unlinked = { name \in cleaned.before.entries : IsCmdTxt(name) }

\* C22: OutputInterceptor.cleanupByIds(storageDir, ids) never unlinks the
\* artifact of an execution id contained in ids nor a file that is not named
\* cmd-<digits>.txt, unlinks every cmd-<digits>.txt file whose id is not in
\* ids, and returns normally when the directory is missing or an unlink
\* fails; only an entry whose unlink succeeded leaves the directory.
C22_CleanupByIds ==
    (cleaned.called /\ cleaned.kind = "cleanupByIds") =>
        LET ids == cleaned.executionIds
            before == cleaned.before
            artifacts12 == { CmdFile(<<"1">>), CmdFile(<<"1", "2">>) }
        IN  /\ ~cleaned.threw
            /\ \A id \in ids : CmdFile(id) \notin Unlinked
            /\ Unlinked \subseteq artifacts12
            /\ \A id \in {<<"1">>, <<"1", "2">>} :
                  (before.exists /\ CmdFile(id) \in before.entries /\ id \notin ids)
                      => CmdFile(id) \in Unlinked
            /\ ~before.exists => cleaned.unlinks = <<>> /\ cmdDir = before
            /\ cmdDir.entries = before.entries \ (Unlinked \ {cleaned.failing})

\* ids = {"1"}: of a full directory cmd-12.txt alone was unlinked; cmd-1.txt
\* and the files that are no artifacts stayed.
C22_Witness ==
    /\ cleaned.called
    /\ cleaned.kind = "cleanupByIds"
    /\ cleaned.executionIds = {<<"1">>}
    /\ cleaned.before.entries = EntryNames
    /\ cleaned.unlinks = <<CmdFile(<<"1", "2">>)>>
    /\ CmdFile(<<"1">>) \in cmdDir.entries
    /\ CmdFile(<<"1", "2">>) \notin cmdDir.entries
    /\ Cardinality(cmdDir.entries) = Cardinality(EntryNames) - 1

----------------------------------------------------------------------------
(* Folded file context: claims *)

\* C23: for every list of files and every definitions text, the content
\* returned by generateFoldedFileContext has at most maxCharacters
\* characters, characterCount <= maxCharacters, also when the last section
\* is truncated and when several sections are joined.
C23_ContentWithinMaxCharacters ==
    folded.called =>
        /\ Len(folded.content) <= folded.maxCharacters
        /\ folded.characterCount <= folded.maxCharacters

----------------------------------------------------------------------------
(* Reading artifacts: further claims *)

LastPushed == call.pushed[1]

ReadModeCall ==
    /\ call.count > 0
    /\ call.params.search = NoSearch
    /\ call.pushed # <<>>
    /\ LastPushed.kind \in {"read", "error"}
    /\ LastPushed.kind = "error" => LastPushed.why = "invalid_offset"

\* C24: for an existing artifact of size S, read mode with 0 <= offset < S
\* returns exactly the bytes [offset, min(offset + limit, S)) and marks the
\* result TRUNCATED iff bytes remain after that window; an offset outside
\* [0, S) yields an error result with no content.
C24_ReadWindowExact ==
    ReadModeCall =>
        LET bytes == artifacts[call.params.artifact_id]
            S == Len(bytes)
            offset == call.params.offset
            last == Min(offset + call.params.limit, S)
        IN  IF 0 <= offset /\ offset < S
            THEN /\ LastPushed.kind = "read"
                 /\ Utf8Encode(LastPushed.content) = SubSeq(bytes, offset + 1, last)
                 /\ LastPushed.truncated = (last < S)
            ELSE LastPushed = ErrorResult("invalid_offset")

----------------------------------------------------------------------------
(* Settings migrations: further claims *)

\* The updates of a call made by migration 2, in order.
V2Updates(run) == SelectSeq(run.updates, LAMBDA u : u.version = 2)

\* The call ran migration 2 to its end.
RanV2(run) ==
    /\ ~run.threw
    /\ VersionOf(run.before) \in {Undefined, Num("0"), Num("1")}

\* C25: migration v2 copies every key of the nested codebaseIndexConfig
\* whose value is defined to the top-level key of the same name, writes no
\* top-level key whose nested value is undefined, and then removes the
\* nested object; when no nested object is stored it writes no indexing key
\* at all.
C25_FlattenCodebaseIndexConfig ==
    \A i \in 1..Len(migLog) :
        LET run == migLog[i]
            nested == run.before["codebaseIndexConfig"]
            v2 == V2Updates(run)
            written == { v2[n].key : n \in 1..Len(v2) }
        IN  RanV2(run) =>
              IF nested = Undefined
              THEN /\ v2 = <<>>
                   /\ \A key \in {"codebaseIndexEnabled", "codebaseIndexQdrantUrl",
                                  "codebaseIndexConfig"} : run.after[key] = run.before[key]
              ELSE /\ \A key \in {"codebaseIndexEnabled", "codebaseIndexQdrantUrl"} :
                         IF nested[2][key] = Undefined
                         THEN key \notin written /\ run.after[key] = run.before[key]
                         ELSE /\ \E n \in 1..(Len(v2) - 1) :
                                    v2[n].key = key /\ v2[n].value = nested[2][key]
                              /\ run.after[key] = nested[2][key]
                   /\ written \subseteq {"codebaseIndexEnabled", "codebaseIndexQdrantUrl",
                                         "codebaseIndexConfig"}
                   /\ v2[Len(v2)].key = "codebaseIndexConfig"
                   /\ v2[Len(v2)].value = Undefined
                   /\ run.after["codebaseIndexConfig"] = Undefined

\* A nested object with one defined and one undefined key was flattened:
\* the defined key is at the top level, the other was not written, the
\* nested object is gone.
C25_Witness ==
    /\ Len(migLog) >= 1
    /\ RanV2(migLog[1])
    /\ migLog[1].before["codebaseIndexConfig"] =
          <<"object", [codebaseIndexEnabled |-> <<"boolean", "false">>,
                       codebaseIndexQdrantUrl |-> Undefined]>>
    /\ migLog[1].after["codebaseIndexEnabled"] = <<"boolean", "false">>
    /\ migLog[1].after["codebaseIndexQdrantUrl"] = Undefined
    /\ migLog[1].after["codebaseIndexConfig"] = Undefined
    /\ Len(V2Updates(migLog[1])) = 2

----------------------------------------------------------------------------
(* OutputInterceptor: further claims *)

\* C26: every artifact file that an OutputInterceptor can create can be read
\* back: for every executionId it may be constructed with, the file name
\* cmd-<executionId>.txt it spills to is accepted by the artifact_id
\* validation of ReadCommandOutputTool.
C26_ArtifactNamesAreReadable ==
    \A i \in Inst : oi[i].constructed => isValidArtifactId(oi[i].artifactPath)

----------------------------------------------------------------------------
(* ReadCommandOutputTool: further claims *)

\* C27: every call of execute delivers exactly one tool result through
\* pushToolResult, whichever path it takes: missing artifact_id, invalid
\* artifact_id, unavailable storage path, missing artifact, invalid offset,
\* read or search failure, and success.
C27_ExactlyOneToolResult ==
    call.count > 0 => Len(call.pushed) = 1

\* A call whose read of the artifact threw: the catch block pushed the result.
C27_Witness ==
    /\ call.count > 0
    /\ call.fs # <<>>
    /\ call.fs[Len(call.fs)].op \in {"open", "readFile"}
    /\ call.pushed = <<ErrorResult("read_failed")>>

----------------------------------------------------------------------------
(* Settings migrations: further claims *)

\* C28: when a migration step throws during runSettingsMigrations, the
\* stored settingsMigrationVersion is left as it was, and a later complete
\* run started from the partially migrated state ends with the same stored
\* settings and version as a run that never failed.
C28_FailedRunIsResumable ==
    /\ \A i \in 1..Len(migLog) :
          migLog[i].threw =>
             migLog[i].after["settingsMigrationVersion"]
                = migLog[i].before["settingsMigrationVersion"]
    /\ \A i \in 1..(Len(migLog) - 1) :
          (migLog[i].threw /\ ~migLog[i + 1].threw) =>
             migLog[i + 1].after
                = ApplyUpdates(migLog[i].before, AllUpdates(migLog[i].before))

\* A run that threw after it had copied a nested key, followed by a
\* complete run.
C28_Witness ==
    /\ Len(migLog) = 2
    /\ migLog[1].threw
    /\ migLog[1].updates # <<>>
    /\ migLog[1].after["codebaseIndexEnabled"] # Undefined
    /\ migLog[1].after["codebaseIndexConfig"] # Undefined
    /\ ~migLog[2].threw
    /\ migLog[2].updates # <<>>

ChangedDefaults == {"showRooIgnoredFiles"}

----------------------------------------------------------------------------
(* OutputInterceptor: the artifact stream *)

\* C30: in any sequence of write and finalize calls on one OutputInterceptor
\* the artifact stream is opened at most once, ended at most once, and never
\* written to after it has been ended.
C30_StreamOpenedAndEndedOnce ==
    \A i \in Inst :
        /\ oiLog[i].created <= 1
        /\ oiLog[i].ended <= 1
        /\ oiLog[i].afterEnd = 0

====
